---- MODULE Spec2Model ----
(***************************************************************************)
(* Verification model of the synthetic behavioural-data generator          *)
(* (src/data_generation).                                                  *)
(*                                                                         *)
(* Number representation (floats of the source as exact integers):         *)
(*   - fractions and probabilities: permille (0.70 -> 700)                 *)
(*   - escalation ratios: tenths (0.9 -> 9, 7.0 -> 70)                     *)
(*   - base amounts: whole dollars                                         *)
(*   - returned amounts: exact rationals [n, d] in dollars                 *)
(*   - rounded amounts: cents                                              *)
(*   - datetimes: half-second ticks since START_DATE 00:00:00; the odd     *)
(*     tick stands for a non-zero microsecond part                         *)
(***************************************************************************)
EXTENDS Integers, Sequences, FiniteSets, TLC

VARIABLES
    pc,              \* position of the running operation
    state_machine,   \* the BettingStateMachine object
    amount,          \* value returned by the last get_next_bet_amount call
    outcome,         \* argument of the last process_outcome call
    chase_draw,      \* np.random.random() drawn by the last process_outcome('loss')
    players_df,      \* the population table (rows in index order)
    player_pos,      \* 1-based position of generate_bets_for_all_players in players_df
    bet_counter,     \* bet_counter of generate_bets_for_all_players
    all_bets,        \* all_bets (bet_id and player_id columns)
    bets,            \* bets of the running generate_bets_for_single_player (same columns)
    total_bets,      \* total_bets of the running generate_bets_for_single_player
    bet_num,         \* loop variable of the running generate_bets_for_single_player
    current_date,    \* current_date of the running generate_bets_for_single_player
    timestamp,       \* timestamp returned by the last generate_bet_timestamp call
    hour,            \* hour drawn by the last generate_bet_timestamp call
    bet,             \* the bet record appended last
    cli_seed,        \* value of the --seed option
    n_players,       \* value of the --n-players option
    run_no,          \* which of two runs of the pipeline (same options) is executing
    np_rng,          \* state of numpy's global generator: seed it was set from, draws taken
    py_rng,          \* state of the random module's generator
    faker_rng,       \* state of Faker's generator
    out,             \* the tables of the running pipeline (drawn values)
    exported,        \* what each run wrote to its three files
    validate,        \* value of the --validate/--no-validate option
    gamalyze_df,     \* the assessment table of main (rows in index order)
    bets_df,         \* the event table of main
    validation_results, \* the map returned by validate_all
    files,           \* the files written to the output directory (main: rows per file)
    config,          \* the values of the config module as loaded
    correlation_matrix, \* correlation_matrix argument of generate_correlated_variables
    error,           \* the exception raised, or None
    samples,         \* the array returned by generate_correlated_variables: its shape
    generation_steps, \* the sampling steps of generate_players that have run
    reread,          \* the table obtained by reading the population file back
    rg_queue_cases,  \* rows of table rg_queue_cases
    rg_case_status_log, \* rows of table rg_case_status_log
    response,        \* body of the last HTTP response
    datasets,        \* the three tables handed to validate_all
    baseline_results, \* the map validate_all returned for the tables as generated
    corrupted_results, \* the map validate_all returned after one amount was changed
    drift_args,      \* arguments and draws of the last select_sport_with_drift call
    drift_dist,      \* dist of that call when it reached the sampling line
    drift_sport,     \* the category that call returned
    group_bets,      \* one group of bets_df.groupby('player_id'), sorted by bet_timestamp
    player_stats,    \* the row calculate_bet_metrics_per_player appended for that group
    id_args,         \* index and state the identifiers are generated from
    id_checks,       \* the generated identifiers and what the validators returned
    utc_now,         \* reading of datetime.utcnow() in the backend
    calls,           \* number of requests the backend has served
    STG_PLAYER_PROFILES, \* state_jurisdiction of each player_id in STG_PLAYER_PROFILES
    rg_trigger_check_log, \* rows of table rg_trigger_check_log, in insertion order
    rg_query_log     \* rows of table rg_query_log, in insertion order

fsmVars == <<state_machine, amount, outcome, chase_draw>>
genVars == <<players_df, player_pos, bet_counter, all_bets, bets, total_bets,
             bet_num, current_date, timestamp, hour, bet>>
seedVars == <<cli_seed, n_players, run_no, np_rng, py_rng, faker_rng, out, exported>>
pipeVars == <<validate, gamalyze_df, bets_df, validation_results, files>>
cfgVars == <<config, correlation_matrix, error, samples, generation_steps>>
expVars == <<reread>>
queueVars == <<rg_queue_cases, rg_case_status_log, response>>
valVars == <<datasets, baseline_results, corrupted_results>>
lateVars == <<drift_args, drift_dist, drift_sport, group_bets, player_stats, id_args,
              id_checks, utc_now, calls, STG_PLAYER_PROFILES, rg_trigger_check_log,
              rg_query_log>>
auxVars == <<cfgVars, expVars, queueVars, valVars, lateVars>>
extVars == <<pipeVars, auxVars>>
vars == <<pc, state_machine, amount, outcome, chase_draw, players_df, player_pos,
          bet_counter, all_bets, bets, total_bets, bet_num, current_date,
          timestamp, hour, bet, cli_seed, n_players, run_no, np_rng, py_rng,
          faker_rng, out, exported, extVars>>

(***************************************************************************)
(* Bounds of the model                                                     *)
(***************************************************************************)
MaxLosses == 3
MaxPlayers == 2
MaxBets == 3

(***************************************************************************)
(* Program constants (config.py)                                           *)
(***************************************************************************)
MAX_BET_ESCALATION_MULTIPLIER == 5
MIN_TARGET_ESCALATION == 9
LATE_NIGHT_CAP == 700

None == [none |-> TRUE]

\* parts of the state a specification does not use
SeedIdle ==
    /\ cli_seed = 0 /\ n_players = 0 /\ run_no = 0
    /\ np_rng = None /\ py_rng = None /\ faker_rng = None
    /\ out = None /\ exported = None

PipeIdle ==
    /\ validate = FALSE /\ gamalyze_df = <<>> /\ bets_df = None
    /\ validation_results = None /\ files = None

CfgIdle ==
    /\ config = None /\ correlation_matrix = None /\ error = None
    /\ samples = None /\ generation_steps = <<>>

ExpIdle == reread = None

QueueIdle == rg_queue_cases = {} /\ rg_case_status_log = {} /\ response = None

ValIdle == datasets = None /\ baseline_results = None /\ corrupted_results = None

LateIdle ==
    /\ drift_args = None /\ drift_dist = None /\ drift_sport = None
    /\ group_bets = None /\ player_stats = None
    /\ id_args = None /\ id_checks = None
    /\ utc_now = 0 /\ calls = 0
    /\ STG_PLAYER_PROFILES = None
    /\ rg_trigger_check_log = <<>> /\ rg_query_log = <<>>

AuxIdle == CfgIdle /\ ExpIdle /\ QueueIdle /\ ValIdle /\ LateIdle

ExtIdle == PipeIdle /\ AuxIdle

Min(a, b) == IF a < b THEN a ELSE b
Max(a, b) == IF a > b THEN a ELSE b

RECURSIVE Pow(_, _)
Pow(b, e) == IF e = 0 THEN 1 ELSE b * Pow(b, e - 1)

\* np.clip(x, lo, hi)
clip(x, lo, hi) == Min(Max(x, lo), hi)

\* values np.random.random() can return, in permille of [0, 1)
RandomDraws == {0, 999}

(***************************************************************************)
(* BettingStateMachine                                                     *)
(***************************************************************************)
BettingStateMachine(base_bet_amount, target_escalation_ratio, bet_after_loss_ratio, late_night_pct) ==
    [ base_amount            |-> base_bet_amount,
      target_escalation      |-> Max(MIN_TARGET_ESCALATION, target_escalation_ratio),
      chase_probability      |-> clip(bet_after_loss_ratio, 0, 1000),
      late_night_baseline    |-> clip(late_night_pct, 0, 700),
      state                  |-> "NORMAL",
      consecutive_losses     |-> 0,
      current_late_night_pct |-> late_night_pct ]

\* np.random.uniform(low, high) draws of get_next_bet_amount, permille;
\* the ESCALATING branch draws nothing
UniformDraws(sm) ==
    CASE sm.state = "NORMAL"  -> {800, 1199}
      [] sm.state = "CHASING" -> {900}
      [] OTHER                -> {1000}

\* get_next_bet_amount with the ESCALATING exponent off by one
get_next_bet_amount_prev_exponent(sm, u) ==
    CASE sm.state = "NORMAL" ->
            [n |-> sm.base_amount * u, d |-> 1000]
      [] sm.state = "CHASING" ->
            [n |-> sm.base_amount * sm.target_escalation * u, d |-> 10000]
      [] sm.state = "ESCALATING" ->
            LET k == sm.consecutive_losses - 1
                multiplier == Min(Pow(sm.target_escalation, k),
                                  MAX_BET_ESCALATION_MULTIPLIER * Pow(10, k))
            IN  [n |-> sm.base_amount * multiplier, d |-> Pow(10, k)]
      [] OTHER ->
            [n |-> sm.base_amount, d |-> 1]

get_next_bet_amount(sm, u) ==
    CASE sm.state = "NORMAL" ->
            [n |-> sm.base_amount * u, d |-> 1000]
      [] sm.state = "CHASING" ->
            [n |-> sm.base_amount * sm.target_escalation * u, d |-> 10000]
      [] sm.state = "ESCALATING" ->
            LET k == sm.consecutive_losses
                multiplier == Min(Pow(sm.target_escalation, k),
                                  MAX_BET_ESCALATION_MULTIPLIER * Pow(10, k))
            IN  [n |-> sm.base_amount * multiplier, d |-> Pow(10, k)]
      [] OTHER ->
            [n |-> sm.base_amount, d |-> 1]

\* process_outcome whose win branch forgets to restore the late-hour fraction
process_outcome_win_keeps_late(sm, o, r) ==
    IF o = "loss"
    THEN LET k == sm.consecutive_losses + 1 IN
         IF r < sm.chase_probability
         THEN IF k = 1
              THEN [sm EXCEPT !.consecutive_losses = k, !.state = "CHASING"]
              ELSE [sm EXCEPT !.consecutive_losses = k, !.state = "ESCALATING",
                              !.current_late_night_pct =
                                  Min((sm.late_night_baseline * (2 + k)) \div 2,
                                      LATE_NIGHT_CAP)]
         ELSE [sm EXCEPT !.state = "NORMAL", !.consecutive_losses = 0]
    ELSE [sm EXCEPT !.state = "NORMAL", !.consecutive_losses = 0]

\* process_outcome that picks the next state from the counter before the increment
process_outcome_stale_counter(sm, o, r) ==
    IF o = "loss"
    THEN LET k == sm.consecutive_losses + 1 IN
         IF r < sm.chase_probability
         THEN IF sm.consecutive_losses = 1
              THEN [sm EXCEPT !.consecutive_losses = k, !.state = "CHASING"]
              ELSE IF sm.consecutive_losses >= 2
              THEN [sm EXCEPT !.consecutive_losses = k, !.state = "ESCALATING",
                              !.current_late_night_pct =
                                  Min((sm.late_night_baseline * (2 + k)) \div 2,
                                      LATE_NIGHT_CAP)]
              ELSE [sm EXCEPT !.consecutive_losses = k]
         ELSE [sm EXCEPT !.state = "NORMAL", !.consecutive_losses = 0]
    ELSE [sm EXCEPT !.state = "NORMAL", !.consecutive_losses = 0,
                    !.current_late_night_pct = sm.late_night_baseline]

\* process_outcome whose no-chase branch resets the state but not the counter
process_outcome_no_chase_keeps_counter(sm, o, r) ==
    IF o = "loss"
    THEN LET k == sm.consecutive_losses + 1 IN
         IF r < sm.chase_probability
         THEN IF k = 1
              THEN [sm EXCEPT !.consecutive_losses = k, !.state = "CHASING"]
              ELSE [sm EXCEPT !.consecutive_losses = k, !.state = "ESCALATING",
                              !.current_late_night_pct =
                                  Min((sm.late_night_baseline * (2 + k)) \div 2,
                                      LATE_NIGHT_CAP)]
         ELSE [sm EXCEPT !.state = "NORMAL", !.consecutive_losses = k]
    ELSE [sm EXCEPT !.state = "NORMAL", !.consecutive_losses = 0,
                    !.current_late_night_pct = sm.late_night_baseline]

process_outcome(sm, o, r) ==
    IF o = "loss"
    THEN LET k == sm.consecutive_losses + 1 IN
         IF r < sm.chase_probability
         THEN IF k = 1
              THEN [sm EXCEPT !.consecutive_losses = k, !.state = "CHASING"]
              ELSE [sm EXCEPT !.consecutive_losses = k, !.state = "ESCALATING",
                              !.current_late_night_pct =
                                  Min((sm.late_night_baseline * (2 + k)) \div 2,
                                      LATE_NIGHT_CAP)]
         ELSE [sm EXCEPT !.state = "NORMAL", !.consecutive_losses = 0]
    ELSE [sm EXCEPT !.state = "NORMAL", !.consecutive_losses = 0,
                    !.current_late_night_pct = sm.late_night_baseline]

is_chasing(sm) == sm.state \in {"CHASING", "ESCALATING"}

(***************************************************************************)
(* The state machine on its own: any constructor arguments, then any       *)
(* sequence of get_next_bet_amount / process_outcome calls.                *)
(***************************************************************************)
BaseAmountArgs == {10, 500}
EscalationArgs == {5, 15, 40, 70}
ChaseArgs      == {-100, 0, 500, 1000, 1200}
LateNightArgs  == {-20, 20, 600, 750}

InitFSM ==
    /\ ExtIdle
    /\ SeedIdle
    /\ pc = "fsm_init"
    /\ \E b \in BaseAmountArgs, e \in EscalationArgs,
          c \in ChaseArgs, l \in LateNightArgs :
          state_machine = BettingStateMachine(b, e, c, l)
    /\ amount = None
    /\ outcome = "none"
    /\ chase_draw = 0
    /\ players_df = <<>>
    /\ player_pos = 1
    /\ bet_counter = 0
    /\ all_bets = <<>>
    /\ bets = <<>>
    /\ total_bets = 0
    /\ bet_num = 0
    /\ current_date = 0
    /\ timestamp = 0
    /\ hour = 0
    /\ bet = None

GetNextBetAmount ==
    /\ UNCHANGED extVars
    /\ UNCHANGED seedVars
    /\ pc \in {"fsm_init", "fsm_amount", "fsm_outcome"}
    /\ \E u \in UniformDraws(state_machine) :
          amount' = get_next_bet_amount(state_machine, u)
    /\ pc' = "fsm_amount"
    /\ UNCHANGED <<state_machine, outcome, chase_draw>>
    /\ UNCHANGED genVars

ProcessWin ==
    /\ UNCHANGED extVars
    /\ UNCHANGED seedVars
    /\ pc \in {"fsm_init", "fsm_amount", "fsm_outcome"}
    /\ state_machine' = process_outcome(state_machine, "win", 0)
    /\ outcome' = "win"
    /\ pc' = "fsm_outcome"
    /\ UNCHANGED <<amount, chase_draw>>
    /\ UNCHANGED genVars

ProcessLoss ==
    /\ UNCHANGED extVars
    /\ UNCHANGED seedVars
    /\ pc \in {"fsm_init", "fsm_amount", "fsm_outcome"}
    /\ state_machine.consecutive_losses < MaxLosses
    /\ \E r \in RandomDraws :
          /\ chase_draw' = r
          /\ state_machine' = process_outcome(state_machine, "loss", r)
    /\ outcome' = "loss"
    /\ pc' = "fsm_outcome"
    /\ UNCHANGED amount
    /\ UNCHANGED genVars

NextFSM == GetNextBetAmount \/ ProcessWin \/ ProcessLoss

SpecFSM == InitFSM /\ [][NextFSM]_vars

(***************************************************************************)
(* Claims about the state machine                                          *)
(***************************************************************************)
WinStep  == pc' = "fsm_outcome" /\ outcome' = "win"
LossStep == pc' = "fsm_outcome" /\ outcome' = "loss"

\* C1: whatever the state, the counter and the current late-hour fraction
\* were before, process_outcome('win') leaves state = NORMAL,
\* consecutive_losses = 0 and the current late-hour fraction equal to the
\* baseline, which is the constructor argument clipped to [0, 0.70]; the
\* fixed attributes are untouched.
C1_WinResets ==
    [][ WinStep =>
          /\ state_machine'.state = "NORMAL"
          /\ state_machine'.consecutive_losses = 0
          /\ state_machine'.current_late_night_pct = state_machine.late_night_baseline
          /\ state_machine'.late_night_baseline = state_machine.late_night_baseline
          /\ state_machine.late_night_baseline \in 0..700 ]_vars

\* a win was processed after the machine had escalated (an ESCALATING amount
\* with denominator 10^k, k >= 2, was handed out before)
C1_Witness ==
    /\ pc = "fsm_outcome" /\ outcome = "win"
    /\ amount # None /\ amount.d = 100
    /\ state_machine.state = "NORMAL"
    /\ state_machine.current_late_night_pct = state_machine.late_night_baseline

\* C2: process_outcome('loss') follows the transition table: with k the
\* incremented counter, a successful chase draw gives CHASING when k = 1 and
\* ESCALATING when k >= 2, the counter stays k, and only the ESCALATING case
\* raises the current late-hour fraction to min(baseline * (1 + 0.5 k), 0.70);
\* a failed chase draw gives NORMAL with counter 0.
C2_LossTable ==
    [][ LossStep =>
          LET k     == state_machine.consecutive_losses + 1
              chase == chase_draw' < state_machine.chase_probability
              old   == state_machine.current_late_night_pct
              base  == state_machine.late_night_baseline
          IN  /\ (chase /\ k = 1) =>
                    /\ state_machine'.state = "CHASING"
                    /\ state_machine'.consecutive_losses = 1
                    /\ state_machine'.current_late_night_pct = old
              /\ (chase /\ k >= 2) =>
                    /\ state_machine'.state = "ESCALATING"
                    /\ state_machine'.consecutive_losses = k
                    /\ state_machine'.current_late_night_pct =
                          (IF base * (2 + k) > 2 * 700 THEN 700
                           ELSE (base * (2 + k)) \div 2)
              /\ (~chase) =>
                    /\ state_machine'.state = "NORMAL"
                    /\ state_machine'.consecutive_losses = 0
                    /\ state_machine'.current_late_night_pct = old ]_vars

\* a chased loss reached ESCALATING and the 0.70 cap cut the raised fraction
C2_Witness ==
    /\ pc = "fsm_outcome" /\ outcome = "loss"
    /\ chase_draw < state_machine.chase_probability
    /\ state_machine.state = "ESCALATING"
    /\ state_machine.consecutive_losses = 3
    /\ state_machine.late_night_baseline * 5 > 2 * 700
    /\ state_machine.current_late_night_pct = 700

C3_Expected(base, esc, k) ==
    IF k = 2
    THEN [n |-> base * (IF esc * esc < 500 THEN esc * esc ELSE 500), d |-> 100]
    ELSE [n |-> base * (IF Pow(esc, k) < 5 * Pow(10, k)
                        THEN Pow(esc, k) ELSE 5 * Pow(10, k)),
          d |-> Pow(10, k)]

\* C3: with chase probability 1.0 every loss is chased, so k >= 2 losses in
\* a row leave the machine ESCALATING with consecutive_losses = k, and the
\* amount get_next_bet_amount then returns is base * min(ratio^k, 5.0)
\* exactly (no random factor); for k = 2 that is base * min(ratio^2, 5.0).
C3_EscalatingAmount ==
    /\ []( (state_machine.chase_probability = 1000
               /\ state_machine.consecutive_losses >= 2) =>
            /\ state_machine.state = "ESCALATING"
            /\ (pc = "fsm_amount" =>
                   amount = C3_Expected(state_machine.base_amount,
                                        state_machine.target_escalation,
                                        state_machine.consecutive_losses)) )
    /\ [][ (LossStep /\ state_machine.chase_probability = 1000) =>
              state_machine'.consecutive_losses =
                  state_machine.consecutive_losses + 1 ]_vars

\* two chased losses in a row, then the next amount, below the 5.0 cap
C3_Witness ==
    /\ pc = "fsm_amount"
    /\ state_machine.chase_probability = 1000
    /\ state_machine.consecutive_losses = 2
    /\ state_machine.state = "ESCALATING"
    /\ state_machine.target_escalation = 15
    /\ amount = [n |-> state_machine.base_amount * 225, d |-> 100]

(***************************************************************************)
(* Configuration (config.py)                                               *)
(***************************************************************************)
Cohorts == {"low_risk", "medium_risk", "high_risk", "critical"}
VALID_STATES == {"MA", "NJ", "PA"}

\* (min, max) per metric; ratios in tenths, fractions in permille
BEHAVIOR_RANGES ==
    [c \in Cohorts |->
       CASE c = "low_risk" ->
              [bet_after_loss_ratio |-> <<150, 350>>, bet_escalation_ratio |-> <<9, 11>>,
               bets_per_week |-> <<2, 5>>, late_night_pct |-> <<20, 80>>,
               base_bet_amount |-> <<10, 50>>]
         [] c = "medium_risk" ->
              [bet_after_loss_ratio |-> <<450, 650>>, bet_escalation_ratio |-> <<13, 18>>,
               bets_per_week |-> <<10, 20>>, late_night_pct |-> <<150, 300>>,
               base_bet_amount |-> <<25, 100>>]
         [] c = "high_risk" ->
              [bet_after_loss_ratio |-> <<850, 950>>, bet_escalation_ratio |-> <<25, 40>>,
               bets_per_week |-> <<35, 60>>, late_night_pct |-> <<450, 600>>,
               base_bet_amount |-> <<50, 250>>]
         [] OTHER ->
              [bet_after_loss_ratio |-> <<950, 990>>, bet_escalation_ratio |-> <<40, 70>>,
               bets_per_week |-> <<60, 90>>, late_night_pct |-> <<600, 750>>,
               base_bet_amount |-> <<100, 500>>]]

COHORT_WIN_RATES ==
    [c \in Cohorts |->
       CASE c = "low_risk" -> 470 [] c = "medium_risk" -> 450
         [] c = "high_risk" -> 350 [] OTHER -> 300]

Sports == {"NFL", "NBA", "MLB", "NHL", "SOCCER", "MMA", "TENNIS", "TABLE_TENNIS"}

\* market tier in tenths
MARKET_TIERS ==
    [sp \in Sports |->
       CASE sp \in {"NFL", "NBA", "MLB", "NHL"} -> 10
         [] sp = "SOCCER" -> 7
         [] sp \in {"MMA", "TENNIS"} -> 5
         [] OTHER -> 2]

\* 90 / 7 weeks in the window, as numerator and denominator
DAYS_IN_WINDOW == 90
DAYS_PER_WEEK == 7

(***************************************************************************)
(* Utilities (utils.py)                                                    *)
(***************************************************************************)
RECURSIVE NumDigits(_)
NumDigits(n) == IF n < 10 THEN 1 ELSE 1 + NumDigits(n \div 10)

\* f"PLR_{index+1:04d}_{state}": the number, zero-padded to at least 4 digits
generate_player_id(index, st) ==
    [prefix |-> "PLR", number |-> index + 1, width |-> Max(4, NumDigits(index + 1)),
     state |-> st]

\* f"BET_{index+1:08d}": the number, zero-padded to at least 8 digits
generate_bet_id(index) ==
    [prefix |-> "BET", number |-> index + 1, width |-> Max(8, NumDigits(index + 1))]

\* random.uniform(min, max): both ends can come out; q says which
sample_from_range(range_tuple, q) == range_tuple[q]

\* the ends taken by the four sample_from_range calls of one entity
\* (bets_per_week, base_bet_amount, bet_after_loss_ratio, late_night_pct)
SampleDraws == {<<1, 1, 1, 1>>, <<2, 2, 2, 2>>}

\* round(x, 2) of the rational n/d to whole cents, ties to even; the
\* denominators produced by get_next_bet_amount are powers of ten
RoundHalfEven(n, d) ==
    LET q == n \div d
        r == n % d
    IN  IF 2 * r > d THEN q + 1
        ELSE IF 2 * r < d THEN q
        ELSE IF q % 2 = 0 THEN q ELSE q + 1

\* round(amount, -2): rounds to hundreds of dollars instead of cents
round_to_cents_wrong_digits(amt) ==
    10000 * RoundHalfEven(amt.n, amt.d * 100)

round_to_cents(amt) ==
    IF amt.d >= 100 THEN RoundHalfEven(amt.n, amt.d \div 100)
    ELSE amt.n * (100 \div amt.d)

\* max(0.01, amount)
MaxOneCent(amt) ==
    IF (IF amt.d >= 100 THEN amt.n < amt.d \div 100 ELSE amt.n < 1)
    THEN [n |-> 1, d |-> 100]
    ELSE amt

(***************************************************************************)
(* Datetimes                                                               *)
(***************************************************************************)
DayTicks == 172800
END_DATE_OFFSET_DAYS == 89

\* datetime.strptime(START_DATE, '%Y-%m-%d')
StartDate == 0
\* datetime.strptime(END_DATE, '%Y-%m-%d') + timedelta(days=1) - timedelta(seconds=1)
EndDate == END_DATE_OFFSET_DAYS * DayTicks + DayTicks - 2

\* dt.replace(hour=h, minute=m, second=s): date and microsecond are kept
Replace(dt, h, m, sec) ==
    (dt \div DayTicks) * DayTicks + 2 * (3600 * h + 60 * m + sec) + (dt % 2)

\* dt.strftime('%Y-%m-%dT%H:%M:%S'): the microsecond is dropped; the
\* fixed-width string is represented by the whole second it denotes
format_timestamp(dt) == dt \div 2

\* timedelta(days=np.random.exponential(scale)): any non-negative length,
\* whatever the scale
DayIncrements(chasing) ==
    {0, END_DATE_OFFSET_DAYS * DayTicks + 1}

LATE_NIGHT_START_HOUR == 2
LATE_NIGHT_END_HOUR == 6

\* np.random.randint(2, 6), or int(np.random.normal(20, 3)) clipped to 6..23
HourDraws(r, late_night_pct) ==
    IF r < late_night_pct
    THEN {LATE_NIGHT_START_HOUR}
    ELSE {Max(6, Min(23, 27))}

\* np.random.randint(0, 60) for minute and second
MinuteSecondDraws == {<<0, 0>>, <<59, 59>>}

\* generate_bet_timestamp without the monotonicity repair
generate_bet_timestamp_no_repair(cur, end_date, inc, h, ms) ==
    LET new_date == IF cur + inc > end_date THEN end_date ELSE cur + inc
    IN  Replace(new_date, h, ms[1], ms[2])

generate_bet_timestamp(cur, end_date, inc, h, ms) ==
    LET new_date == IF cur + inc > end_date THEN end_date ELSE cur + inc
        ts       == Replace(new_date, h, ms[1], ms[2])
    IN  IF ts < cur
        THEN (IF ts + DayTicks > end_date THEN end_date ELSE ts + DayTicks)
        ELSE ts

\* select_sport_with_drift: every category keeps a positive probability for
\* every cohort and progress below 1, so np.random.choice can return any
SportDraws(cohort, num, den) == {"TABLE_TENNIS"}

\* generate_realistic_odds
OddsDraws(sport) ==
    IF sport \in {"NFL", "NBA", "MLB", "NHL"} THEN {-110} ELSE {300}

(***************************************************************************)
(* Population (player_generator.py)                                        *)
(***************************************************************************)
\* .clip(min_ratio, max_ratio) with the wrong cohort's range (the mask is
\* dropped, so the last cohort's range ends up on every row)
clamp_escalation_unmasked(cohort, raw) ==
    clip(raw, BEHAVIOR_RANGES["critical"].bet_escalation_ratio[1],
              BEHAVIOR_RANGES["critical"].bet_escalation_ratio[2])

clamp_escalation(cohort, raw) ==
    clip(raw, BEHAVIOR_RANGES[cohort].bet_escalation_ratio[1],
              BEHAVIOR_RANGES[cohort].bet_escalation_ratio[2])

\* demographics[i]: what generate_player_demographics draws for entity i
\* (first_name, last_name, email from Faker, age from np.random.randint);
\* factors[i]: the first three latent factors; latent[i]: the fourth
generate_players(n, cohorts, states, latent, demographics, factors) ==
    [i \in 1..n |->
       [player_id             |-> generate_player_id(i - 1, states[i]),
        first_name            |-> demographics[i].first_name,
        last_name             |-> demographics[i].last_name,
        email                 |-> demographics[i].email,
        age                   |-> demographics[i].age,
        state                 |-> states[i],
        risk_cohort           |-> cohorts[i],
        latent_sensitivity    |-> factors[i][1],
        latent_risk_tolerance |-> factors[i][2],
        latent_consistency    |-> factors[i][3],
        target_bet_escalation |-> clamp_escalation(cohorts[i], latent[i])]]

\* one outcome of the Faker and age draws, and of the first three latent factors
InitGenDemographics ==
    {[first_name |-> <<"A", "n", "n">>, last_name |-> <<"L", "e", "e">>,
      email |-> <<"a", "@", "x">>, age |-> 21]}
InitGenFactors == {<<30, 35, 70>>}

(***************************************************************************)
(* Event generation (bet_generator.py)                                     *)
(***************************************************************************)
\* bet_counter = len(player_bets): the count is overwritten, not accumulated
next_bet_counter_overwritten(counter, player_bets, planned) == Len(player_bets)

\* bet_counter += total_bets: the planned count in place of the generated one
next_bet_counter_planned(counter, player_bets, planned) == counter + planned

next_bet_counter(counter, player_bets, planned) == counter + Len(player_bets)

InitGenCohorts == {"low_risk", "critical"}
InitGenStates  == {"MA"}
InitGenLatent  == {100}

Init ==
    /\ ExtIdle
    /\ SeedIdle
    /\ pc = "next_player"
    /\ \E n \in {MaxPlayers} :
         \E cohorts \in [1..n -> InitGenCohorts], states \in [1..n -> InitGenStates],
            latent \in [1..n -> InitGenLatent],
            demographics \in [1..n -> InitGenDemographics],
            factors \in [1..n -> InitGenFactors] :
            players_df = generate_players(n, cohorts, states, latent,
                                          demographics, factors)
    /\ player_pos = 1
    /\ bet_counter = 0
    /\ all_bets = <<>>
    /\ bets = <<>>
    /\ total_bets = 0
    /\ bet_num = 0
    /\ current_date = StartDate
    /\ timestamp = StartDate
    /\ hour = 0
    /\ bet = None
    /\ state_machine = None
    /\ amount = None
    /\ outcome = "none"
    /\ chase_draw = 0

\* generate_bets_for_single_player, up to the loop head
StartPlayer ==
    /\ UNCHANGED extVars
    /\ UNCHANGED seedVars
    /\ pc = "next_player"
    /\ player_pos <= Len(players_df)
    /\ LET player   == players_df[player_pos]
           behavior == BEHAVIOR_RANGES[player.risk_cohort]
       IN  \E q \in SampleDraws :
              LET bets_per_week   == sample_from_range(behavior.bets_per_week, q[1])
                  base_bet_amount == sample_from_range(behavior.base_bet_amount, q[2])
              IN  /\ total_bets' = (bets_per_week * DAYS_IN_WINDOW) \div DAYS_PER_WEEK
                  /\ state_machine' = BettingStateMachine(
                         base_bet_amount, player.target_bet_escalation,
                         sample_from_range(behavior.bet_after_loss_ratio, q[3]),
                         sample_from_range(behavior.late_night_pct, q[4]))
    /\ bets' = <<>>
    /\ bet_num' = 0
    /\ current_date' = StartDate
    /\ pc' = "loop"
    /\ UNCHANGED <<amount, outcome, chase_draw, players_df, player_pos, bet_counter,
                   all_bets, timestamp, hour, bet>>

\* one loop iteration, from the timestamp to bets.append(bet)
GenerateBet ==
    /\ UNCHANGED extVars
    /\ UNCHANGED seedVars
    /\ pc = "loop"
    /\ bet_num < total_bets
    /\ bet_num < MaxBets
    /\ ~(current_date >= EndDate)
    /\ LET player == players_df[player_pos]
           cohort == player.risk_cohort
       IN  \E inc \in DayIncrements(is_chasing(state_machine)),
              r_late \in RandomDraws, ms \in MinuteSecondDraws,
              u \in UniformDraws(state_machine),
              r_win \in RandomDraws, r_chase \in RandomDraws :
           \E h \in HourDraws(r_late, state_machine.current_late_night_pct),
              sport \in SportDraws(cohort, bet_num, Max(total_bets, 1)) :
           \E odds \in OddsDraws(sport) :
              LET ts  == generate_bet_timestamp(current_date, EndDate, inc, h, ms)
                  amt == get_next_bet_amount(state_machine, u)
                  oc  == IF r_win < COHORT_WIN_RATES[cohort] THEN "win" ELSE "loss"
                  b   == [bet_id         |-> generate_bet_id(bet_counter + bet_num),
                          player_id      |-> player.player_id,
                          bet_timestamp  |-> format_timestamp(ts),
                          sport_category |-> sport,
                          market_type    |-> "moneyline",
                          bet_amount     |-> round_to_cents(MaxOneCent(amt)),
                          odds_american  |-> odds,
                          outcome        |-> oc,
                          market_tier    |-> MARKET_TIERS[sport]]
              IN  /\ timestamp' = ts
                  /\ hour' = h
                  /\ amount' = amt
                  /\ outcome' = oc
                  /\ chase_draw' = IF oc = "loss" THEN r_chase ELSE chase_draw
                  /\ state_machine' = process_outcome(state_machine, oc, r_chase)
                  /\ bet' = b
                  /\ bets' = Append(bets, [bet_id |-> b.bet_id, player_id |-> b.player_id])
    /\ pc' = "emitted"
    /\ UNCHANGED <<players_df, player_pos, bet_counter, all_bets, total_bets, bet_num,
                   current_date>>

\* end of the iteration: current_date = timestamp, next bet_num
AdvanceDate ==
    /\ UNCHANGED extVars
    /\ UNCHANGED seedVars
    /\ pc = "emitted"
    /\ current_date' = timestamp
    /\ bet_num' = bet_num + 1
    /\ pc' = "loop"
    /\ UNCHANGED <<state_machine, amount, outcome, chase_draw, players_df, player_pos,
                   bet_counter, all_bets, bets, total_bets, timestamp, hour, bet>>

\* the loop ends (count reached, window exhausted, or the model's cut-off)
\* and generate_bets_for_all_players takes the entity's bets over
FinishPlayer ==
    /\ UNCHANGED extVars
    /\ UNCHANGED seedVars
    /\ pc = "loop"
    /\ \/ bet_num >= total_bets
       \/ bet_num >= MaxBets
       \/ current_date >= EndDate
    /\ all_bets' = all_bets \o bets
    /\ bet_counter' = next_bet_counter(bet_counter, bets, total_bets)
    /\ player_pos' = player_pos + 1
    /\ pc' = "next_player"
    \* the locals of generate_bets_for_single_player end with the call
    /\ state_machine' = None /\ amount' = None /\ outcome' = "none" /\ chase_draw' = 0
    /\ bets' = <<>> /\ total_bets' = 0 /\ bet_num' = 0
    /\ current_date' = StartDate /\ timestamp' = StartDate /\ hour' = 0 /\ bet' = None
    /\ UNCHANGED players_df

\* every entity processed: bets_df = pd.DataFrame(all_bets)
FinishAllPlayers ==
    /\ UNCHANGED extVars
    /\ UNCHANGED seedVars
    /\ pc = "next_player"
    /\ player_pos > Len(players_df)
    /\ pc' = "done"
    /\ UNCHANGED <<fsmVars, genVars>>

Next == StartPlayer \/ GenerateBet \/ AdvanceDate \/ FinishPlayer \/ FinishAllPlayers

Spec == Init /\ [][Next]_vars

(***************************************************************************)
(* Population generation on its own (generate_players)                     *)
(***************************************************************************)
\* values the latent-factor sampler can produce for bet_escalation_ratio, tenths
LatentDraws == {-5, 10, 15, 30, 100}

InitPlayers ==
    /\ ExtIdle
    /\ SeedIdle
    /\ pc = "generate_players"
    /\ players_df = <<>>
    /\ player_pos = 1
    /\ bet_counter = 0
    /\ all_bets = <<>>
    /\ bets = <<>>
    /\ total_bets = 0
    /\ bet_num = 0
    /\ current_date = StartDate
    /\ timestamp = StartDate
    /\ hour = 0
    /\ bet = None
    /\ state_machine = None
    /\ amount = None
    /\ outcome = "none"
    /\ chase_draw = 0

GeneratePlayers ==
    /\ UNCHANGED extVars
    /\ UNCHANGED seedVars
    /\ pc = "generate_players"
    /\ \E n \in 1..MaxPlayers :
         \E cohorts \in [1..n -> Cohorts], states \in [1..n -> VALID_STATES],
            latent \in [1..n -> LatentDraws],
            demographics \in [1..n -> InitGenDemographics],
            factors \in [1..n -> InitGenFactors] :
            players_df' = generate_players(n, cohorts, states, latent,
                                           demographics, factors)
    /\ pc' = "players_generated"
    /\ UNCHANGED <<fsmVars, player_pos, bet_counter, all_bets, bets, total_bets,
                   bet_num, current_date, timestamp, hour, bet>>

NextPlayers == GeneratePlayers

SpecPlayers == InitPlayers /\ [][NextPlayers]_vars

(***************************************************************************)
(* Claims about event and population generation                            *)
(***************************************************************************)
\* C4: within an entity the exported timestamps never go back and stay in
\* the window: the timestamp of the event just appended is not before the
\* previous event's (which is the formatted current_date; window start for
\* the first event) and lies in [2026-01-01 00:00:00, 2026-03-31 23:59:59],
\* also when the repair (one day forward, clamp to window end) fires.
C4_TimestampsOrdered ==
    /\ (pc = "emitted") =>
          /\ format_timestamp(current_date) <= bet.bet_timestamp
          /\ format_timestamp(StartDate) <= bet.bet_timestamp
          /\ bet.bet_timestamp <= format_timestamp(EndDate)
    /\ (pc = "loop" /\ bet_num > 0) =>
          bet.bet_timestamp = format_timestamp(current_date)

\* the drawn hour (2 AM) fell before current_date on the last day of the
\* window: the repair moved it one day forward and the clamp cut it to the end
C4_Witness ==
    /\ pc = "emitted"
    /\ bet_num >= 1
    /\ hour = LATE_NIGHT_START_HOUR
    /\ current_date \div DayTicks = END_DATE_OFFSET_DAYS
    /\ current_date > Replace(current_date, hour, 59, 59)
    /\ timestamp = EndDate

\* C5: every emitted event has an amount of at least one cent after rounding
\* and an outcome that is 'win' or 'loss'.
C5_AmountOutcomeValid ==
    (bet # None) =>
        /\ bet.bet_amount >= 1
        /\ bet.outcome \in {"win", "loss"}

\* an event emitted from the ESCALATING state (two losses before it) and lost
C5_Witness ==
    /\ pc = "emitted"
    /\ amount.d = 100
    /\ state_machine.consecutive_losses = 3
    /\ bet.outcome = "loss"
    /\ bet.bet_amount >= 1

AllGenerated == all_bets \o bets

\* C6: the n-th event generated in the run, counting across entities in
\* entity order, carries identifier number n (BET_ + 8 digits): no gap and no
\* repeat at entity boundaries, also after an entity whose loop stopped early.
C6_IdsSequential ==
    \A n \in 1..Len(AllGenerated) :
        /\ AllGenerated[n].bet_id.number = n
        /\ AllGenerated[n].bet_id.width = 8
        /\ \A m \in 1..(n - 1) : AllGenerated[m].bet_id.number < AllGenerated[n].bet_id.number

\* the first entity stopped after one event (window exhausted, count not
\* reached) and the second entity has emitted
C6_Witness ==
    /\ player_pos = 2
    /\ Len(all_bets) = 1
    /\ total_bets > 1
    /\ Len(bets) >= 1
    /\ bets[1].bet_id.number = 2

\* C9 as stated: an entity's events do not depend on the entities processed
\* before it, so its identifiers are the ones it gets when it is processed
\* first (bet_id_start = 0).
C9_NoCrossEntityState ==
    \A k \in 1..Len(bets) : bets[k].bet_id = generate_bet_id(k - 1)

\* C9 amended: the running bet counter crosses entity boundaries: it equals
\* the number of events generated for the entities processed before, and the
\* k-th event of an entity carries identifier number bet_counter + k; the
\* state machine, the running timestamp and the loop counter are created
\* anew for every entity.
C9_CounterCrosses ==
    /\ (pc \in {"next_player", "loop", "emitted", "done"}) => bet_counter = Len(all_bets)
    /\ \A k \in 1..Len(bets) :
          /\ bets[k].bet_id = generate_bet_id(Len(all_bets) + k - 1)
          /\ bets[k].player_id = players_df[player_pos].player_id
    /\ (pc = "loop" /\ bet_num = 0) =>
          /\ state_machine.state = "NORMAL"
          /\ state_machine.consecutive_losses = 0
          /\ current_date = StartDate
          /\ bets = <<>>

\* the second entity starts afresh while the counter holds the first one's events
C9_Witness ==
    /\ pc = "loop" /\ bet_num = 0
    /\ player_pos = 2
    /\ bet_counter = 2
    /\ state_machine.state = "NORMAL"

\* C10: after generate_players every entity's target_bet_escalation is at
\* least 0.9 and inside its own cohort's bet_escalation_ratio range
\* (low 0.9-1.1, medium 1.3-1.8, high 2.5-4.0, critical 4.0-7.0).
C10_EscalationInCohortRange ==
    \A i \in 1..Len(players_df) :
        LET row == players_df[i]
            e   == row.target_bet_escalation
        IN  /\ e >= 9
            /\ row.risk_cohort = "low_risk"    => (9 <= e /\ e <= 11)
            /\ row.risk_cohort = "medium_risk" => (13 <= e /\ e <= 18)
            /\ row.risk_cohort = "high_risk"   => (25 <= e /\ e <= 40)
            /\ row.risk_cohort = "critical"    => (40 <= e /\ e <= 70)

\* a low-risk entity clamped up to 0.9 next to a critical one clamped down to 7.0
C10_Witness ==
    /\ pc = "players_generated"
    /\ Len(players_df) = 2
    /\ players_df[1].risk_cohort = "low_risk"
    /\ players_df[1].target_bet_escalation = 9
    /\ players_df[2].risk_cohort = "critical"
    /\ players_df[2].target_bet_escalation = 70

(***************************************************************************)
(* Seeding of the pipeline (__main__.py and the three generators).         *)
(* A generator is a seed and a count of draws taken; a draw is a function  *)
(* of both, so equal seeds give equal draws.  The pipeline is run twice    *)
(* with the same options, each run in a fresh process.                     *)
(***************************************************************************)
RANDOM_SEED == 42

\* values of --seed (42 is the default), and seeds a fresh process takes
\* from the operating system for generators nobody seeds
SeedArgs  == {7, 42}
OsEntropy == {1001, 1002, 1003}

Seeded(sd) == [seed |-> sd, pos |-> 0]
Advance(rng, k) == [rng EXCEPT !.pos = @ + k]
Draw(rng, k) == (rng.seed * 7 + (rng.pos + k) * 13) % 100

\* generate_players: cohort, state, latent factors and age from numpy,
\* names and contact from Faker
players_rows(np, fk, n) ==
    [i \in 1..n |->
       [risk_cohort |-> Draw(np, i - 1),
        state       |-> Draw(np, n + i - 1),
        latent      |-> Draw(np, 2 * n + i - 1),
        first_name  |-> Draw(fk, 3 * (i - 1)),
        last_name   |-> Draw(fk, 3 * (i - 1) + 1),
        email       |-> Draw(fk, 3 * (i - 1) + 2),
        age         |-> Draw(np, 3 * n + i - 1)]]

\* generate_gamalyze_scores: score noise from numpy, assessment date from
\* random.uniform (random_date_past_n_days)
gamalyze_rows(np, py, n) ==
    [i \in 1..n |->
       [scores          |-> Draw(np, i - 1),
        assessment_date |-> Draw(py, i - 1)]]

\* generate_bets_for_all_players, per entity: the four sample_from_range
\* draws (random.uniform) and, for an event, timestamp, amount and outcome
\* from numpy and odds from the random module (generate_realistic_odds)
bets_rows(np, py, n) ==
    [i \in 1..n |->
       [bets_per_week |-> Draw(py, 5 * (i - 1)),
        base_amount   |-> Draw(py, 5 * (i - 1) + 1),
        chase         |-> Draw(py, 5 * (i - 1) + 2),
        late_night    |-> Draw(py, 5 * (i - 1) + 3),
        timestamp     |-> Draw(np, 3 * (i - 1)),
        amount        |-> Draw(np, 3 * (i - 1) + 1),
        odds          |-> Draw(py, 5 * (i - 1) + 4),
        outcome       |-> Draw(np, 3 * (i - 1) + 2)]]

NoTables == [players |-> <<>>, gamalyze |-> <<>>, bets |-> <<>>]

InitSeed ==
    /\ ExtIdle
    /\ pc = "run_start"
    /\ cli_seed \in SeedArgs
    /\ n_players \in 1..MaxPlayers
    /\ run_no = 1
    /\ \E e1 \in OsEntropy, e2 \in OsEntropy :
          /\ np_rng = Seeded(e1)
          /\ py_rng = Seeded(e2)
          /\ faker_rng = Seeded(e1)
    /\ out = NoTables
    /\ exported = [r \in {1, 2} |-> None]
    /\ players_df = <<>>
    /\ player_pos = 1
    /\ bet_counter = 0
    /\ all_bets = <<>>
    /\ bets = <<>>
    /\ total_bets = 0
    /\ bet_num = 0
    /\ current_date = StartDate
    /\ timestamp = StartDate
    /\ hour = 0
    /\ bet = None
    /\ state_machine = None
    /\ amount = None
    /\ outcome = "none"
    /\ chase_draw = 0

\* main: np.random.seed(seed)
MainSeed ==
    /\ UNCHANGED extVars
    /\ pc = "run_start"
    /\ np_rng' = Seeded(cli_seed)
    /\ pc' = "run_players"
    /\ UNCHANGED <<fsmVars, genVars, cli_seed, n_players, run_no, py_rng, faker_rng,
                   out, exported>>

\* generate_players: np.random.seed(RANDOM_SEED), Faker.seed(RANDOM_SEED)
RunGeneratePlayers ==
    /\ UNCHANGED extVars
    /\ pc = "run_players"
    /\ LET np == Seeded(RANDOM_SEED)
           fk == Seeded(RANDOM_SEED)
       IN  /\ out' = [out EXCEPT !.players = players_rows(np, fk, n_players)]
           /\ np_rng' = Advance(np, 4 * n_players)
           /\ faker_rng' = Advance(fk, 3 * n_players)
    /\ pc' = "run_gamalyze"
    /\ UNCHANGED <<fsmVars, genVars, cli_seed, n_players, run_no, py_rng, exported>>

\* generate_gamalyze_scores: np.random.seed(RANDOM_SEED + 1)
RunGenerateGamalyze ==
    /\ UNCHANGED extVars
    /\ pc = "run_gamalyze"
    /\ LET np == Seeded(RANDOM_SEED + 1)
       IN  /\ out' = [out EXCEPT !.gamalyze = gamalyze_rows(np, py_rng, n_players)]
           /\ np_rng' = Advance(np, n_players)
           /\ py_rng' = Advance(py_rng, n_players)
    /\ pc' = "run_bets"
    /\ UNCHANGED <<fsmVars, genVars, cli_seed, n_players, run_no, faker_rng, exported>>

\* generate_bets_for_all_players: np.random.seed(RANDOM_SEED + 2)
RunGenerateBets ==
    /\ UNCHANGED extVars
    /\ pc = "run_bets"
    /\ LET np == Seeded(RANDOM_SEED + 2)
       IN  /\ out' = [out EXCEPT !.bets = bets_rows(np, py_rng, n_players)]
           /\ np_rng' = Advance(np, 3 * n_players)
           /\ py_rng' = Advance(py_rng, 5 * n_players)
    /\ pc' = "run_export"
    /\ UNCHANGED <<fsmVars, genVars, cli_seed, n_players, run_no, faker_rng, exported>>

\* export_players_csv, export_bets_csv, export_gamalyze_csv
RunExport ==
    /\ UNCHANGED extVars
    /\ pc = "run_export"
    /\ exported' = [exported EXCEPT ![run_no] = out]
    /\ pc' = "run_done"
    /\ UNCHANGED <<fsmVars, genVars, cli_seed, n_players, run_no, np_rng, py_rng,
                   faker_rng, out>>

\* the same command line again, in a new process
SecondRun ==
    /\ UNCHANGED extVars
    /\ pc = "run_done"
    /\ run_no = 1
    /\ run_no' = 2
    /\ \E e1 \in OsEntropy, e2 \in OsEntropy :
          /\ np_rng' = Seeded(e1)
          /\ py_rng' = Seeded(e2)
          /\ faker_rng' = Seeded(e1)
    /\ out' = NoTables
    /\ pc' = "run_start"
    /\ UNCHANGED <<fsmVars, genVars, cli_seed, n_players, exported>>

NextSeed ==
    \/ MainSeed \/ RunGeneratePlayers \/ RunGenerateGamalyze \/ RunGenerateBets
    \/ RunExport \/ SecondRun

SpecSeed == InitSeed /\ [][NextSeed]_vars

\* C7: two runs with the same seed and the same population size export
\* identical population, event and assessment tables.
C7_Deterministic ==
    (exported # None /\ exported[1] # None /\ exported[2] # None) =>
        exported[1] = exported[2]

\* C8: every stage derives its generator state from the supplied seed:
\* population generation runs on seed + 0, assessment generation on seed + 1
\* and event generation on seed + 2.
C8_SuppliedSeedDrivesStages ==
    /\ pc = "run_gamalyze" => np_rng.seed = cli_seed
    /\ pc = "run_bets"     => np_rng.seed = cli_seed + 1
    /\ pc = "run_export"   => np_rng.seed = cli_seed + 2

(***************************************************************************)
(* The pipeline of main (__main__.py): population, assessments, events,    *)
(* edge-case injection, validation, export.  The population and the        *)
(* assessment table are carried row by row; the event table is carried as  *)
(* its row count (its rows are the subject of Spec), and so is each        *)
(* written file (the text of the population file is the subject of         *)
(* SpecExport).                                                            *)
(***************************************************************************)
TOTAL_PLAYERS == 10000
EXPECTED_PLAYERS == TOTAL_PLAYERS
MIN_BETS == 450000
MAX_BETS == 520000
EXPECTED_GAMALYZE_SCORES == TOTAL_PLAYERS

\* 'PLR_0333_NJ', the identifier inject_edge_cases filters on
NO_GAMALYZE_PLAYER == [prefix |-> "PLR", number |-> 333, width |-> 4, state |-> "NJ"]

\* values of --n-players: below the edge-case index, a sample, the default
PlayerCountArgs == {332, 1000, TOTAL_PLAYERS}

\* outcomes of assign_states: entity 333 in the jurisdiction of the
\* edge-case identifier or in another one
StateDraws(n) ==
    {[i \in 1..n |-> IF i = NO_GAMALYZE_PLAYER.number THEN s ELSE t] :
        s \in {"MA", "NJ"}, t \in {"MA"}}

\* f"ASSESS_{player_id}"
generate_assessment_id(player_id) == [prefix |-> "ASSESS", player_id |-> player_id]

\* one record per row of players_df, in row order
generate_gamalyze_scores(players) ==
    [i \in 1..Len(players) |->
       [assessment_id |-> generate_assessment_id(players[i].player_id),
        player_id     |-> players[i].player_id]]

\* len(bets_df) after generate_bets_for_all_players: an entity plans between
\* int(2 * 90/7) = 25 and int(90 * 90/7) = 1157 events
BetCountDraws(n) == {25 * n, 50 * n}

\* inject_edge_cases that also drops the entity from the population
inject_edge_cases_drops_player(players, bets_table, gamalyze) ==
    <<SelectSeq(players, LAMBDA row : row.player_id # NO_GAMALYZE_PLAYER),
      bets_table,
      SelectSeq(gamalyze, LAMBDA row : row.player_id # NO_GAMALYZE_PLAYER)>>

inject_edge_cases(players, bets_table, gamalyze) ==
    <<players,
      bets_table,
      SelectSeq(gamalyze, LAMBDA row : row.player_id # NO_GAMALYZE_PLAYER)>>

\* Tier 1 of validate_all
count_validations(n_player_rows, n_bet_rows, n_gamalyze_rows) ==
    [player_count    |-> n_player_rows = EXPECTED_PLAYERS,
     bet_count_range |-> MIN_BETS <= n_bet_rows /\ n_bet_rows <= MAX_BETS,
     gamalyze_count  |-> n_gamalyze_rows = EXPECTED_GAMALYZE_SCORES]

(***************************************************************************)
(* CSV export of the population (export_players_csv) and re-reading.       *)
(* A text is a sequence of symbols: a character [ch |-> c], or an atom     *)
(* [atom |-> v] standing for a run of characters none of which is special  *)
(* to CSV (an identifier, a jurisdiction code, a cohort label).  A line of *)
(* the file is the sequence of symbols between two line ends.              *)
(***************************************************************************)
public_columns ==
    <<"player_id", "first_name", "last_name", "email", "age", "state", "risk_cohort">>

latent_columns ==
    {"latent_sensitivity", "latent_risk_tolerance", "latent_consistency",
     "target_bet_escalation"}

Comma == [ch |-> ","]
Quote == [ch |-> "\""]

\* the text of a str value held as a sequence of one-character strings
Chars(str) == [i \in 1..Len(str) |-> [ch |-> str[i]]]

DigitChars == <<"0", "1", "2", "3", "4", "5", "6", "7", "8", "9">>

\* str(n) for a non-negative integer
RECURSIVE IntToText(_)
IntToText(n) ==
    IF n < 10 THEN <<[ch |-> DigitChars[n + 1]]>>
    ELSE Append(IntToText(n \div 10), [ch |-> DigitChars[(n % 10) + 1]])

DigitValue(sym) == (CHOOSE d \in 1..10 : DigitChars[d] = sym.ch) - 1

IsDigit(sym) == "ch" \in DOMAIN sym /\ \E d \in 1..10 : DigitChars[d] = sym.ch

\* int(text) for a text of digits
RECURSIVE TextToInt(_)
TextToInt(text) ==
    IF Len(text) = 0 THEN 0
    ELSE 10 * TextToInt(SubSeq(text, 1, Len(text) - 1)) + DigitValue(text[Len(text)])

\* the text to_csv writes for a value of the given column
cell_text(column, value) ==
    CASE column = "age" -> IntToText(value)
      [] column \in {"first_name", "last_name", "email"} -> Chars(value)
      [] OTHER -> <<[atom |-> value]>>

\* csv.QUOTE_MINIMAL: a field holding the delimiter or the quote character
\* is wrapped in quotes, quote characters inside it doubled
RECURSIVE DoubleQuotes(_)
DoubleQuotes(text) ==
    IF Len(text) = 0 THEN <<>>
    ELSE (IF Head(text) = Quote THEN <<Quote, Quote>> ELSE <<Head(text)>>)
             \o DoubleQuotes(Tail(text))

quote_field(text) ==
    IF \E i \in 1..Len(text) : text[i] \in {Comma, Quote}
    THEN <<Quote>> \o DoubleQuotes(text) \o <<Quote>>
    ELSE text

RECURSIVE JoinFields(_)
JoinFields(fields) ==
    IF Len(fields) = 0 THEN <<>>
    ELSE IF Len(fields) = 1 THEN fields[1]
    ELSE fields[1] \o <<Comma>> \o JoinFields(Tail(fields))

\* the column order of the table generate_players returns
dataframe_columns ==
    public_columns \o <<"latent_sensitivity", "latent_risk_tolerance",
                        "latent_consistency", "target_bet_escalation">>

\* an export that writes the whole table, players_df.to_csv(...)
export_players_csv_all_columns(players) ==
    [header |-> dataframe_columns,
     lines  |-> [i \in 1..Len(players) |->
                   JoinFields([c \in 1..Len(dataframe_columns) |->
                       quote_field(cell_text(dataframe_columns[c],
                                             players[i][dataframe_columns[c]]))])]]

\* players_df[public_columns].to_csv(output_path, index=False):
\* the header line and one line per row, in row order
export_players_csv(players) ==
    [header |-> public_columns,
     lines  |-> [i \in 1..Len(players) |->
                   JoinFields([c \in 1..Len(public_columns) |->
                       quote_field(cell_text(public_columns[c],
                                             players[i][public_columns[c]]))])]]

(***************************************************************************)
(* main, step by step                                                      *)
(***************************************************************************)
NoFiles == [players |-> None, bets |-> None, gamalyze |-> None]

\* checks of validate_all whose result depends on the drawn values of the
\* events and scores, which the pipeline model does not carry
StatisticalChecks ==
    {"sport_distribution", "gamalyze_normality",
     "corr_sensitivity_to_loss_vs_bet_escalation_ratio",
     "corr_risk_tolerance_vs_market_tier_drift",
     "corr_decision_consistency_vs_temporal_risk"}

\* all(validation_results.values())
all_passed(results) == \A k \in DOMAIN results : results[k]

\* the draws the pipeline model fixes for every entity
PipelineDemographics == CHOOSE d \in InitGenDemographics : TRUE
PipelineFactors == CHOOSE f \in InitGenFactors : TRUE

\* results of the statistical checks: all pass, one fails, all fail
StatisticalOutcomes ==
    {[k \in StatisticalChecks |-> TRUE], [k \in StatisticalChecks |-> FALSE]}
    \cup {[k \in StatisticalChecks |-> k # failed] : failed \in StatisticalChecks}

InitPipeline ==
    /\ SeedIdle
    /\ AuxIdle
    /\ pc = "main_start"
    /\ validate \in BOOLEAN
    /\ gamalyze_df = <<>>
    /\ bets_df = None
    /\ validation_results = None
    /\ files = NoFiles
    /\ players_df = <<>>
    /\ player_pos = 1
    /\ bet_counter = 0
    /\ all_bets = <<>>
    /\ bets = <<>>
    /\ total_bets = 0
    /\ bet_num = 0
    /\ current_date = StartDate
    /\ timestamp = StartDate
    /\ hour = 0
    /\ bet = None
    /\ state_machine = None
    /\ amount = None
    /\ outcome = "none"
    /\ chase_draw = 0

\* [1/6] players_df = generate_players(n_players)
MainGeneratePlayers ==
    /\ pc = "main_start"
    /\ \E n \in PlayerCountArgs :
         \E states \in StateDraws(n) :
            players_df' = generate_players(n,
                              [i \in 1..n |-> "low_risk"], states,
                              [i \in 1..n |-> 10],
                              [i \in 1..n |-> PipelineDemographics],
                              [i \in 1..n |-> PipelineFactors])
    /\ pc' = "main_gamalyze"
    /\ UNCHANGED <<fsmVars, seedVars, auxVars, player_pos, bet_counter, all_bets, bets,
                   total_bets, bet_num, current_date, timestamp, hour, bet,
                   validate, gamalyze_df, bets_df, validation_results, files>>

\* [2/6] gamalyze_df = generate_gamalyze_scores(players_df)
MainGenerateGamalyze ==
    /\ pc = "main_gamalyze"
    /\ gamalyze_df' = generate_gamalyze_scores(players_df)
    /\ pc' = "main_bets"
    /\ UNCHANGED <<fsmVars, seedVars, auxVars, genVars,
                   validate, bets_df, validation_results, files>>

\* [3/6] bets_df = generate_bets_for_all_players(players_df)
MainGenerateBets ==
    /\ pc = "main_bets"
    /\ \E k \in BetCountDraws(Len(players_df)) : bets_df' = [rows |-> k]
    /\ pc' = "main_inject"
    /\ UNCHANGED <<fsmVars, seedVars, auxVars, genVars,
                   validate, gamalyze_df, validation_results, files>>

\* [4/6] players_df, bets_df, gamalyze_df = inject_edge_cases(...)
MainInjectEdgeCases ==
    /\ pc = "main_inject"
    /\ LET injected == inject_edge_cases(players_df, bets_df, gamalyze_df)
       IN  /\ players_df' = injected[1]
           /\ bets_df' = injected[2]
           /\ gamalyze_df' = injected[3]
    /\ pc' = "main_validate"
    /\ UNCHANGED <<fsmVars, seedVars, auxVars, player_pos, bet_counter, all_bets, bets,
                   total_bets, bet_num, current_date, timestamp, hour, bet,
                   validate, validation_results, files>>

\* [5/6] if validate: validation_results = validate_all(...); a failed
\* check only prints a warning
MainValidate ==
    /\ pc = "main_validate"
    /\ validate
    /\ \E statistical \in StatisticalOutcomes :
          validation_results' =
              count_validations(Len(players_df), bets_df.rows, Len(gamalyze_df))
              @@ [no_null_player_ids |-> TRUE,
                  valid_states |-> \A i \in 1..Len(players_df) :
                                       players_df[i].state \in {"MA", "NJ", "PA"},
                  positive_bets |-> TRUE]
              @@ statistical
    /\ pc' = "main_export"
    /\ UNCHANGED <<fsmVars, seedVars, auxVars, genVars, validate, gamalyze_df, bets_df, files>>

\* [5/6] else: validation skipped
MainSkipValidation ==
    /\ pc = "main_validate"
    /\ ~validate
    /\ pc' = "main_export"
    /\ UNCHANGED <<fsmVars, seedVars, auxVars, genVars, pipeVars>>

\* an export step that runs only when every validation check passed
MainExport_requires_all_passed ==
    /\ pc = "main_export"
    /\ validate => all_passed(validation_results)
    /\ files' = [players  |-> [rows |-> Len(players_df)],
                 bets     |-> [rows |-> bets_df.rows],
                 gamalyze |-> [rows |-> Len(gamalyze_df)]]
    /\ pc' = "main_summary"
    /\ UNCHANGED <<fsmVars, seedVars, auxVars, genVars,
                   validate, gamalyze_df, bets_df, validation_results>>

\* [6/6] export_players_csv, export_bets_csv, export_gamalyze_csv
MainExport ==
    /\ pc = "main_export"
    /\ files' = [players  |-> [rows |-> Len(players_df)],
                 bets     |-> [rows |-> bets_df.rows],
                 gamalyze |-> [rows |-> Len(gamalyze_df)]]
    /\ pc' = "main_summary"
    /\ UNCHANGED <<fsmVars, seedVars, auxVars, genVars,
                   validate, gamalyze_df, bets_df, validation_results>>

\* the summary; `if validate and all_passed` reads all_passed only when
\* validation ran; main returns
MainSummary ==
    /\ pc = "main_summary"
    /\ pc' = "main_done"
    /\ UNCHANGED <<fsmVars, seedVars, auxVars, genVars, pipeVars>>

NextPipeline ==
    \/ MainGeneratePlayers \/ MainGenerateGamalyze \/ MainGenerateBets
    \/ MainInjectEdgeCases \/ MainValidate \/ MainSkipValidation
    \/ MainExport \/ MainSummary

SpecPipeline == InitPipeline /\ [][NextPipeline]_vars

\* main is sequential code and each of its steps returns
SpecPipelineLive == InitPipeline /\ [][NextPipeline]_vars /\ WF_vars(NextPipeline)

(***************************************************************************)
(* Claims about edge-case injection, the count checks and the export       *)
(***************************************************************************)
AfterInjection == pc \in {"main_validate", "main_export", "main_summary", "main_done"}

GamalyzeIds == {gamalyze_df[j].player_id : j \in 1..Len(gamalyze_df)}

\* entities of the population without an assessment record
NoAssessment ==
    {i \in 1..Len(players_df) : players_df[i].player_id \notin GamalyzeIds}

\* C11: after edge-case injection of a default-size run exactly one entity
\* of the population has no assessment record and every other entity has
\* exactly one, whatever jurisdiction the sampling gave to each entity.
C11_OneMissingAssessment ==
    (AfterInjection /\ Len(players_df) = TOTAL_PLAYERS) =>
        /\ Cardinality(NoAssessment) = 1
        /\ Cardinality(GamalyzeIds) = Len(gamalyze_df)

\* rows of the assessment table that belong to the 'missing assessment' entity
RowsOfNoGamalyzePlayer(table) ==
    {j \in 1..Len(table) : table[j].player_id = NO_GAMALYZE_PLAYER}

InjectStep == pc = "main_inject" /\ pc' = "main_validate"

\* C12: inject_edge_cases returns the population table and the event table
\* unchanged, and the assessment table it returns is the input assessment
\* table without the rows of the 'missing assessment' entity, the other
\* rows kept in order.
C12_InjectReplacesNeverAppends ==
    [][InjectStep =>
          LET removed == RowsOfNoGamalyzePlayer(gamalyze_df) IN
          /\ players_df' = players_df
          /\ Len(players_df') = Len(players_df)
          /\ bets_df' = bets_df
          /\ Len(gamalyze_df') = Len(gamalyze_df) - Cardinality(removed)
          /\ RowsOfNoGamalyzePlayer(gamalyze_df') = {}
          /\ \A j \in 1..Len(gamalyze_df) :
                j \notin removed =>
                    gamalyze_df'[j - Cardinality({r \in removed : r < j})]
                        = gamalyze_df[j]
      ]_vars

\* injection has removed the assessment of PLR_0333_NJ from a full-size run
C12_Witness ==
    /\ pc = "main_validate"
    /\ Len(players_df) = TOTAL_PLAYERS
    /\ players_df[NO_GAMALYZE_PLAYER.number].player_id = NO_GAMALYZE_PLAYER
    /\ Len(gamalyze_df) = TOTAL_PLAYERS - 1

\* C13: on the tables of a default-size run after edge-case injection, with
\* one assessment per entity except the removed edge-case entity, the
\* 'gamalyze_count' check of validate_all passes.
C13_GamalyzeCountAccountsForRemoval ==
    (/\ validation_results # None
     /\ Len(players_df) = TOTAL_PLAYERS
     /\ Len(gamalyze_df) = Len(players_df) - 1)
        => validation_results.gamalyze_count

\* C14: on a generated sample of 1,000 entities (--n-players 1000) whose
\* statistical checks pass, validate_all reports every check as passing,
\* the three count checks included.
C14_SampleSizePasses ==
    (/\ validation_results # None
     /\ Len(players_df) = 1000
     /\ \A k \in StatisticalChecks : validation_results[k])
        => all_passed(validation_results)

FilesExported ==
    /\ files.players # None
    /\ files.bets # None
    /\ files.gamalyze # None

\* C16: once validation has completed, whatever checks failed, or has been
\* skipped (--no-validate), the three files are exported and main returns
\* normally; main never returns without having exported them.
C16_ExportsRegardless ==
    /\ [](pc = "main_done" => FilesExported)
    /\ (pc = "main_export") ~> (pc = "main_done" /\ FilesExported)

\* a run whose validation failed count and statistical checks has exported
\* and returned
C16_Witness ==
    /\ pc = "main_done"
    /\ validate
    /\ ~validation_results.player_count
    /\ ~validation_results.sport_distribution
    /\ FilesExported

(***************************************************************************)
(* generate_correlated_variables (correlations.py) and the loading of the  *)
(* configuration (config.py).  Matrix entries are hundredths (1.00 -> 100),*)
(* probabilities permille, standard deviations whole numbers.  The         *)
(* matrices of the model are 2 x 2: the sensitivity_to_loss and            *)
(* bet_escalation_ratio rows and columns of the configured 4 x 4 matrix.   *)
(***************************************************************************)
FsmIdle ==
    /\ state_machine = None /\ amount = None /\ outcome = "none" /\ chase_draw = 0

BetLoopIdle ==
    /\ player_pos = 1 /\ bet_counter = 0 /\ all_bets = <<>>
    /\ bets = <<>> /\ total_bets = 0 /\ bet_num = 0 /\ current_date = StartDate
    /\ timestamp = StartDate /\ hour = 0 /\ bet = None

GenIdle == players_df = <<>> /\ BetLoopIdle

\* correlation_matrix.T
Transpose(m) == [i \in 1..Len(m[1]) |-> [j \in 1..Len(m) |-> m[j][i]]]

\* np.allclose(a, b): entries differ by a hundredth or more, or not at all,
\* and a hundredth exceeds atol + rtol * |b| = 1e-8 + 1e-5 * |b|
allclose(a, b) == a = b

\* D @ correlation_matrix @ D with D = np.diag(stds)
cov_matrix(m, stds) ==
    [i \in 1..Len(m) |-> [j \in 1..Len(m) |-> stds[i] * m[i][j] * stds[j]]]

\* numpy.linalg.cholesky(c) returns a factor (it raises LinAlgError
\* otherwise): it reads the lower triangle and needs every pivot positive
cholesky_succeeds(c) ==
    /\ c[1][1] > 0
    /\ c[1][1] * c[2][2] - c[2][1] * c[2][1] > 0

ValueError(message) == [raised |-> "ValueError", message |-> message]
AssertionError(message) == [raised |-> "AssertionError", message |-> message]

\* the error raised, or the shape of the array returned
generate_correlated_variables(n_samples, m, means, stds) ==
    IF ~allclose(m, Transpose(m))
    THEN [error |-> ValueError("Correlation matrix must be symmetric"), samples |-> None]
    ELSE IF Len(m) # Len(means)
    THEN [error |-> ValueError("Correlation matrix dimensions must match means length"),
          samples |-> None]
    ELSE IF Len(m) # Len(stds)
    THEN [error |-> ValueError("Correlation matrix dimensions must match stds length"),
          samples |-> None]
    ELSE IF ~cholesky_succeeds(cov_matrix(m, stds))
    THEN [error |-> ValueError("Correlation matrix is not positive definite"),
          samples |-> None]
    ELSE [error |-> None, samples |-> [shape |-> <<n_samples, Len(means)>>]]

\* arguments of a direct call
DiagonalArgs == {0, 100, 200}
OffDiagonalArgs == {0, 72, 150}
CorrelationMatrixArgs ==
    {<<<<a, b>>, <<c, d>>>> : a \in DiagonalArgs, d \in DiagonalArgs,
                              b \in OffDiagonalArgs, c \in OffDiagonalArgs}
MeansArgs == {<<50, 2>>, <<50, 50, 2>>}
LATENT_FACTOR_STDS == <<15, 12>>

InitCorrelations ==
    /\ SeedIdle /\ PipeIdle /\ FsmIdle /\ GenIdle /\ ExpIdle /\ QueueIdle /\ ValIdle /\ LateIdle
    /\ pc = "corr_call"
    /\ config = None
    /\ correlation_matrix \in CorrelationMatrixArgs
    /\ error = None
    /\ samples = None
    /\ generation_steps = <<>>

\* a call generate_correlated_variables(1000, correlation_matrix, means, stds)
GenerateCorrelatedVariables ==
    /\ pc = "corr_call"
    /\ \E means \in MeansArgs :
         LET r == generate_correlated_variables(1000, correlation_matrix, means,
                                                LATENT_FACTOR_STDS)
         IN  /\ error' = r.error
             /\ samples' = r.samples
    /\ pc' = "corr_done"
    /\ UNCHANGED <<fsmVars, genVars, seedVars, pipeVars, expVars, queueVars, valVars, lateVars, config, correlation_matrix,
                   generation_steps>>

NextCorrelations == GenerateCorrelatedVariables

SpecCorrelations == InitCorrelations /\ [][NextCorrelations]_vars

IsSymmetric(m) == \A i \in 1..Len(m) : \A j \in 1..Len(m) : m[i][j] = m[j][i]
HasUnitDiagonal(m) == \A i \in 1..Len(m) : m[i][i] = 100
\* Sylvester's criterion for a symmetric 2 x 2 matrix
IsPositiveDefinite(m) ==
    /\ IsSymmetric(m)
    /\ m[1][1] > 0
    /\ m[1][1] * m[2][2] - m[1][2] * m[2][1] > 0

\* C18: generate_correlated_variables rejects its correlation matrix with an
\* error, without drawing a sample, whenever the matrix is not symmetric, or
\* its diagonal is not all ones, or it is not positive-definite.
C18_RejectsMalformedMatrix ==
    (/\ pc = "corr_done"
     /\ \/ ~IsSymmetric(correlation_matrix)
        \/ ~HasUnitDiagonal(correlation_matrix)
        \/ ~IsPositiveDefinite(correlation_matrix))
        => (error # None /\ samples = None)

(***************************************************************************)
(* Loading config.py (its module-level assertions) and the sampling steps  *)
(* of generate_players that follow in a run of main.                       *)
(***************************************************************************)
COHORT_DISTRIBUTION ==
    [low_risk |-> 900, medium_risk |-> 80, high_risk |-> 15, critical |-> 5]
STATE_DISTRIBUTION == [MA |-> 400, NJ |-> 350, PA |-> 250]
CORRELATION_MATRIX == <<<<100, 72>>, <<72, 100>>>>
LATENT_FACTOR_MEANS ==
    [low_risk |-> <<30, 1>>, medium_risk |-> <<50, 2>>, high_risk |-> <<70, 3>>,
     critical |-> <<85, 4>>]

\* sum(d.values())
RECURSIVE SumValues(_, _)
SumValues(d, keys) ==
    IF keys = {} THEN 0
    ELSE LET k == CHOOSE k \in keys : TRUE IN d[k] + SumValues(d, keys \ {k})

\* the configuration as written and edits of it, one table at a time or
\* several together
ConfigMatrices ==
    {CORRELATION_MATRIX, <<<<100, 0>>, <<0, 100>>>>, <<<<100, -45>>, <<-45, 100>>>>,
     <<<<100, 72>>, <<58, 100>>>>, <<<<200, 72>>, <<72, 100>>>>,
     <<<<100, 150>>, <<150, 100>>>>, <<<<100, 100>>, <<100, 100>>>>,
     <<<<100, -150>>, <<-150, 100>>>>}
ConfigCohortDistributions ==
    {COHORT_DISTRIBUTION, [COHORT_DISTRIBUTION EXCEPT !.critical = 15]}
ConfigStateDistributions ==
    {STATE_DISTRIBUTION, [STATE_DISTRIBUTION EXCEPT !.PA = 300]}
ConfigLatentMeans ==
    {LATENT_FACTOR_MEANS,
     [c \in {"low_risk", "medium_risk", "high_risk"} |-> LATENT_FACTOR_MEANS[c]]}

Configs ==
    [COHORT_DISTRIBUTION : ConfigCohortDistributions,
     STATE_DISTRIBUTION  : ConfigStateDistributions,
     CORRELATION_MATRIX  : ConfigMatrices,
     LATENT_FACTOR_MEANS : ConfigLatentMeans]

\* the first module-level assertion of config.py that fails, or None
config_assertions(cfg) ==
    IF SumValues(cfg.COHORT_DISTRIBUTION, DOMAIN cfg.COHORT_DISTRIBUTION) # 1000
    THEN AssertionError("Cohort distribution must sum to 1.0")
    ELSE IF SumValues(cfg.STATE_DISTRIBUTION, DOMAIN cfg.STATE_DISTRIBUTION) # 1000
    THEN AssertionError("State distribution must sum to 1.0")
    ELSE IF ~allclose(cfg.CORRELATION_MATRIX, Transpose(cfg.CORRELATION_MATRIX))
    THEN AssertionError("Correlation matrix must be symmetric")
    ELSE IF \E i \in 1..Len(cfg.CORRELATION_MATRIX) : cfg.CORRELATION_MATRIX[i][i] # 100
    THEN AssertionError("Correlation matrix diagonal must be 1.0")
    ELSE None

\* generate_latent_factors_for_cohort(n_in_cohort, cohort)
generate_latent_factors_for_cohort(cfg, n_in_cohort, cohort) ==
    IF cohort \notin DOMAIN cfg.LATENT_FACTOR_MEANS
    THEN [error |-> ValueError("Invalid cohort"), samples |-> None]
    ELSE generate_correlated_variables(n_in_cohort, cfg.CORRELATION_MATRIX,
                                       cfg.LATENT_FACTOR_MEANS[cohort],
                                       LATENT_FACTOR_STDS)

\* order of COHORT_DISTRIBUTION.keys()
CohortOrder == <<"low_risk", "medium_risk", "high_risk", "critical">>

\* generate_latent_factors_all_cohorts: the error of the first cohort, in
\* key order, that has entities and whose generation raises, or None
RECURSIVE generate_latent_factors_all_cohorts(_, _, _)
generate_latent_factors_all_cohorts(cfg, present, k) ==
    IF k > Len(CohortOrder) THEN None
    ELSE IF CohortOrder[k] \notin present
    THEN generate_latent_factors_all_cohorts(cfg, present, k + 1)
    ELSE LET r == generate_latent_factors_for_cohort(cfg, 1, CohortOrder[k])
         IN  IF r.error # None THEN r.error
             ELSE generate_latent_factors_all_cohorts(cfg, present, k + 1)

\* cohorts that assign_cohorts gives to at least one entity: all of them in a
\* large run, only the most frequent one in a small run
CohortDraws == {{"low_risk"}, {"low_risk", "medium_risk", "high_risk", "critical"}}

InitConfig ==
    /\ SeedIdle /\ PipeIdle /\ FsmIdle /\ GenIdle /\ ExpIdle /\ QueueIdle /\ ValIdle /\ LateIdle
    /\ pc = "config_import"
    /\ config \in Configs
    /\ correlation_matrix = None
    /\ error = None
    /\ samples = None
    /\ generation_steps = <<>>

\* `from .config import ...`: the module-level assertions run
ImportConfig ==
    /\ pc = "config_import"
    /\ error' = config_assertions(config)
    /\ pc' = IF config_assertions(config) = None THEN "assign_cohorts" ELSE "raised"
    /\ UNCHANGED <<fsmVars, genVars, seedVars, pipeVars, expVars, queueVars, valVars, lateVars, config, correlation_matrix,
                   samples, generation_steps>>

\* generate_players, step 1: cohorts = assign_cohorts(n_players)
AssignCohorts ==
    /\ pc = "assign_cohorts"
    /\ \E present \in CohortDraws :
         generation_steps' =
             Append(generation_steps, [step |-> "assign_cohorts", cohorts |-> present])
    /\ pc' = "assign_states"
    /\ UNCHANGED <<fsmVars, genVars, seedVars, pipeVars, expVars, queueVars, valVars, lateVars, config, correlation_matrix,
                   error, samples>>

\* generate_players, step 2: states = assign_states(n_players)
AssignStates ==
    /\ pc = "assign_states"
    /\ generation_steps' = Append(generation_steps, [step |-> "assign_states"])
    /\ pc' = "latent_factors"
    /\ UNCHANGED <<fsmVars, genVars, seedVars, pipeVars, expVars, queueVars, valVars, lateVars, config, correlation_matrix,
                   error, samples>>

\* generate_players, step 3: generate_latent_factors_all_cohorts(cohorts)
GenerateLatentFactors ==
    /\ pc = "latent_factors"
    /\ LET raised == generate_latent_factors_all_cohorts(
                         config, generation_steps[1].cohorts, 1)
       IN  /\ error' = raised
           /\ pc' = IF raised = None THEN "demographics" ELSE "raised"
           /\ samples' = IF raised = None THEN [shape |-> <<1, 2>>] ELSE None
           /\ generation_steps' =
                 IF raised = None
                 THEN Append(generation_steps, [step |-> "latent_factors"])
                 ELSE generation_steps
    /\ UNCHANGED <<fsmVars, genVars, seedVars, pipeVars, expVars, queueVars, valVars, lateVars, config, correlation_matrix>>

NextConfig ==
    \/ ImportConfig \/ AssignCohorts \/ AssignStates \/ GenerateLatentFactors

SpecConfig == InitConfig /\ [][NextConfig]_vars

\* a cohort of one table that a table referring to it does not have
CohortMissing(cfg) ==
    \E c \in DOMAIN cfg.COHORT_DISTRIBUTION : c \notin DOMAIN cfg.LATENT_FACTOR_MEANS

ConfigurationError(cfg) ==
    \/ ~IsSymmetric(cfg.CORRELATION_MATRIX)
    \/ ~HasUnitDiagonal(cfg.CORRELATION_MATRIX)
    \/ ~IsPositiveDefinite(cfg.CORRELATION_MATRIX)
    \/ SumValues(cfg.COHORT_DISTRIBUTION, DOMAIN cfg.COHORT_DISTRIBUTION) # 1000
    \/ SumValues(cfg.STATE_DISTRIBUTION, DOMAIN cfg.STATE_DISTRIBUTION) # 1000
    \/ CohortMissing(cfg)

\* C19: with a configuration error (correlation matrix not symmetric, not
\* unit-diagonal or not positive-definite; a cohort or jurisdiction
\* distribution that does not sum to 1.0; a cohort missing from a table
\* another table refers to) no generation step ever runs: the error is
\* raised before the first cohort or jurisdiction is sampled.
C19_ConfigErrorsFailFast ==
    ConfigurationError(config) => generation_steps = <<>>

(***************************************************************************)
(* Writing the population file and reading it back (pandas.read_csv with   *)
(* its defaults).                                                          *)
(***************************************************************************)
\* the fields of a line: a comma outside quotes ends a field, a quote opens
\* or closes a quoted run, two quotes inside a quoted run are one quote
RECURSIVE split_fields(_, _, _, _)
split_fields(text, in_quotes, field, fields) ==
    IF Len(text) = 0 THEN Append(fields, field)
    ELSE LET sym == Head(text)
             rest == Tail(text)
         IN  IF in_quotes
             THEN IF sym = Quote
                  THEN IF Len(rest) > 0 /\ Head(rest) = Quote
                       THEN split_fields(Tail(rest), TRUE, Append(field, Quote), fields)
                       ELSE split_fields(rest, FALSE, field, fields)
                  ELSE split_fields(rest, TRUE, Append(field, sym), fields)
             ELSE IF sym = Quote THEN split_fields(rest, TRUE, field, fields)
             ELSE IF sym = Comma THEN split_fields(rest, FALSE, <<>>, Append(fields, field))
             ELSE split_fields(rest, FALSE, Append(field, sym), fields)

NaN == [nan |-> TRUE]

\* texts read_csv takes for a missing value (among them)
na_values ==
    {<<>>, Chars(<<"N", "A">>), Chars(<<"N", "a", "N">>), Chars(<<"n", "a", "n">>),
     Chars(<<"N", "U", "L", "L">>), Chars(<<"n", "u", "l", "l">>),
     Chars(<<"N", "o", "n", "e">>), Chars(<<"N", "/", "A">>), Chars(<<"n", "/", "a">>)}

IsIntText(text) == Len(text) > 0 /\ \A i \in 1..Len(text) : IsDigit(text[i])

\* the str a field text stands for
TextToStr(text) ==
    IF Len(text) = 1 /\ "atom" \in DOMAIN text[1] THEN text[1].atom
    ELSE [i \in 1..Len(text) |-> text[i].ch]

\* pd.read_csv(path): the header gives the column names; a column whose
\* fields are all integers is read as int64, any other as str; a field equal
\* to a missing-value text is read as NaN
read_csv(file) ==
    LET records == [i \in 1..Len(file.lines) |->
                       split_fields(file.lines[i], FALSE, <<>>, <<>>)]
        field(i, c) == IF c <= Len(records[i]) THEN records[i][c] ELSE <<>>
        int_column(c) ==
            /\ Len(records) > 0
            /\ \A i \in 1..Len(records) : IsIntText(field(i, c))
        value(i, c) ==
            IF field(i, c) \in na_values THEN NaN
            ELSE IF int_column(c) THEN TextToInt(field(i, c))
            ELSE TextToStr(field(i, c))
    IN  [columns |-> file.header,
         rows    |-> [i \in 1..Len(records) |->
                        [c \in 1..Len(file.header) |-> value(i, c)]],
         widths  |-> [i \in 1..Len(records) |-> Len(records[i])]]

\* names, contacts and ages of the entities of the exported populations:
\* plain ones, one with an apostrophe, and ones that hold the delimiter or
\* the quote character
ExportDemographics ==
    {[first_name |-> <<"A", "n", "n">>, last_name |-> <<"L", "e", "e">>,
      email |-> <<"a", "@", "x">>, age |-> 21],
     [first_name |-> <<"B", "o">>, last_name |-> <<"O", "'", "H">>,
      email |-> <<"b", "7", "@", "x">>, age |-> 75],
     [first_name |-> <<"C", "y">>, last_name |-> <<"M", ",", "J">>,
      email |-> <<"c", "@", "x">>, age |-> 35],
     [first_name |-> <<"\"", "D", "\"">>, last_name |-> <<"N", "g">>,
      email |-> <<"d", "@", "x">>, age |-> 40],
     [first_name |-> <<"E">>, last_name |-> <<"\"", ",">>,
      email |-> <<"e", "@", "x">>, age |-> 50],
     [first_name |-> <<"N", "a", "n">>, last_name |-> <<"P">>,
      email |-> <<"f", "@", "x">>, age |-> 60]}

ExportStates == <<"MA", "NJ", "PA">>

InitExport ==
    /\ SeedIdle /\ FsmIdle /\ BetLoopIdle /\ CfgIdle /\ QueueIdle /\ ValIdle /\ LateIdle
    /\ pc = "export_players"
    /\ \E n \in 0..MaxPlayers :
         \E demographics \in [1..n -> ExportDemographics] :
            players_df = generate_players(n,
                             [i \in 1..n |-> "low_risk"],
                             [i \in 1..n |-> ExportStates[((i - 1) % 3) + 1]],
                             [i \in 1..n |-> 10],
                             demographics,
                             [i \in 1..n |-> PipelineFactors])
    /\ validate = FALSE
    /\ gamalyze_df = <<>>
    /\ bets_df = None
    /\ validation_results = None
    /\ files = NoFiles
    /\ reread = None

\* export_players_csv(players_df, output_path)
ExportPlayersCsv ==
    /\ pc = "export_players"
    /\ files' = [files EXCEPT !.players = export_players_csv(players_df)]
    /\ pc' = "read_players"
    /\ UNCHANGED <<fsmVars, genVars, seedVars, cfgVars, queueVars, valVars, lateVars,
                   validate, gamalyze_df, bets_df, validation_results, reread>>

\* pd.read_csv(output_path)
ReadPlayersCsv ==
    /\ pc = "read_players"
    /\ reread' = read_csv(files.players)
    /\ pc' = "read_done"
    /\ UNCHANGED <<fsmVars, genVars, seedVars, cfgVars, queueVars, valVars, lateVars, pipeVars>>

NextExport == ExportPlayersCsv \/ ReadPlayersCsv

SpecExport == InitExport /\ [][NextExport]_vars

\* C17: the exported population file has the seven public columns and no
\* latent-factor column, one line per entity, and reading it back gives, for
\* every entity and every public column, the value the in-memory population
\* holds.
C17_ExportRoundTrip ==
    /\ pc \in {"read_players", "read_done"} =>
          /\ files.players.header = public_columns
          /\ \A c \in 1..Len(files.players.header) :
                files.players.header[c] \notin latent_columns
          /\ Len(files.players.lines) = Len(players_df)
    /\ pc = "read_done" =>
          /\ reread.columns = public_columns
          /\ Len(reread.rows) = Len(players_df)
          /\ \A i \in 1..Len(reread.rows) :
                /\ reread.widths[i] = Len(public_columns)
                /\ \A c \in 1..Len(public_columns) :
                      reread.rows[i][c] = players_df[i][public_columns[c]]

\* a population of two entities, one whose name holds the delimiter and one
\* whose name holds the quote character, has been written and read back
C17_Witness ==
    /\ pc = "read_done"
    /\ Len(players_df) = 2
    /\ \E i \in 1..2 : \E k \in 1..Len(players_df[i].last_name) :
          players_df[i].last_name[k] = ","
    /\ \E i \in 1..2 : \E k \in 1..Len(players_df[i].first_name) :
          players_df[i].first_name[k] = "\""
    /\ Len(reread.rows) = 2

(***************************************************************************)
(* The analyst queue of the backend (backend/routers/data.py and           *)
(* backend/routers/cases.py).  A table is the set of its rows.  The        *)
(* handlers are `async def` functions without an await, so a request runs  *)
(* to its end before the next one starts.  Scores are thousandths; the     *)
(* timestamps written by the handlers are left out, calculated_at is the   *)
(* number of hours before the seeding.                                     *)
(***************************************************************************)
QUEUE_TARGET == 50
QUEUE_REFILL_AT == 20
QUEUE_BATCH == 30
QUEUE_MIX == <<<<"CRITICAL", 6>>, <<"HIGH", 12>>, <<"MEDIUM", 20>>, <<"LOW", 5>>>>

STATUS_IN_PROGRESS == "IN_PROGRESS"
STATUS_SUBMITTED == "SUBMITTED"

\* bounds on the requests of a run
MaxStarts == 32
MaxStartedAtSubmit == 2

\* f"CASE-{player_id}"
case_id_of(player_id) == [prefix |-> "CASE", player_id |-> player_id]

\* one row of _seed_queue_data: the idx-th entity of a category, the
\* player_index-th overall
SeedRow(category, player_index, idx) ==
    [player_id |-> [prefix |-> "PLR", number |-> player_index, width |-> 4,
                    state |-> <<"NJ", "PA", "MA">>[(player_index % 3) + 1]],
     composite_risk_score |-> Max(950 - idx * 5, 100),
     risk_category |-> category,
     calculated_at |-> 0 - idx,
     row |-> player_index]

\* table RG_RISK_SCORES as _seed_queue_data fills it: 10 CRITICAL, 20 HIGH,
\* 40 MEDIUM and 30 LOW entities
RG_RISK_SCORES ==
    {SeedRow("CRITICAL", 1 + idx, idx) : idx \in 0..9}
    \cup {SeedRow("HIGH", 11 + idx, idx) : idx \in 0..19}
    \cup {SeedRow("MEDIUM", 31 + idx, idx) : idx \in 0..39}
    \cup {SeedRow("LOW", 71 + idx, idx) : idx \in 0..29}

\* ORDER BY composite_risk_score DESC, calculated_at DESC; rows equal in both
\* come in table order
RanksBefore(a, b) ==
    \/ a.composite_risk_score > b.composite_risk_score
    \/ /\ a.composite_risk_score = b.composite_risk_score
       /\ \/ a.calculated_at > b.calculated_at
          \/ a.calculated_at = b.calculated_at /\ a.row < b.row

\* the first `limit` rows of a result set in that order
RECURSIVE OrderedLimit(_, _)
OrderedLimit(rows, limit) ==
    IF limit = 0 \/ rows = {} THEN <<>>
    ELSE LET top == CHOOSE r \in rows : \A o \in rows \ {r} : RanksBefore(r, o)
         IN  <<top>> \o OrderedLimit(rows \ {top}, limit - 1)

\* category argument of _fetch_candidates when no filter is wanted
NoCategory == "None"

\* _fetch_candidates without the join on rg_case_status_log
fetch_candidates_ignores_status_log(category, limit, queue, status_log) ==
    OrderedLimit(
        {r \in RG_RISK_SCORES :
            /\ ~\E q \in queue : q.player_id = r.player_id /\ q.status = "QUEUED"
            /\ category = NoCategory \/ r.risk_category = category},
        limit)

\* _fetch_candidates: scored entities with no QUEUED queue row and no row in
\* rg_case_status_log
fetch_candidates(category, limit, queue, status_log) ==
    OrderedLimit(
        {r \in RG_RISK_SCORES :
            /\ ~\E q \in queue : q.player_id = r.player_id /\ q.status = "QUEUED"
            /\ ~\E st \in status_log : st.player_id = r.player_id
            /\ category = NoCategory \/ r.risk_category = category},
        limit)

\* SELECT COUNT(*) FROM rg_queue_cases WHERE status = 'QUEUED'
queued_count(queue) == Cardinality({q \in queue : q.status = "QUEUED"})

\* candidates whose entity is not selected yet
NotSelected(candidates, selected) ==
    SelectSeq(candidates,
              LAMBDA r : ~\E k \in 1..Len(selected) : selected[k].player_id = r.player_id)

\* the loop of _refill_queue_if_needed over _QUEUE_MIX, from entry m on
RECURSIVE select_mix(_, _, _, _, _)
select_mix(m, selected, target_add, queue, status_log) ==
    IF m > Len(QUEUE_MIX) \/ Len(selected) >= target_add THEN selected
    ELSE LET category == QUEUE_MIX[m][1]
             limit == QUEUE_MIX[m][2]
             candidates == NotSelected(
                 fetch_candidates(category, limit * 2, queue, status_log), selected)
             taken == Min(Len(candidates), Min(limit, target_add - Len(selected)))
         IN  select_mix(m + 1, selected \o SubSeq(candidates, 1, taken), target_add,
                        queue, status_log)

\* the fallback of _refill_queue_if_needed: any category, best score first
select_fallback(selected, target_add, queue, status_log) ==
    LET remaining == target_add - Len(selected)
    IN  IF remaining <= 0 THEN selected
        ELSE LET candidates == NotSelected(
                     fetch_candidates(NoCategory, Max(remaining * 10, QUEUE_TARGET),
                                      queue, status_log), selected)
             IN  selected \o SubSeq(candidates, 1, Min(Len(candidates), remaining))

\* _insert_queue_entries(selected, batch_id); batch_id is a fresh uuid4
insert_queue_entries(selected, batch_id, queue) ==
    queue \cup {[case_id |-> case_id_of(selected[k].player_id),
                 player_id |-> selected[k].player_id,
                 risk_category |-> selected[k].risk_category,
                 composite_risk_score |-> selected[k].composite_risk_score,
                 batch_id |-> batch_id,
                 status |-> "QUEUED"] : k \in 1..Len(selected)}

\* the table rg_queue_cases after _refill_queue_if_needed
refill_queue_if_needed(queue, status_log) ==
    LET current_count == queued_count(queue)
    IN  IF current_count >= QUEUE_REFILL_AT THEN queue
        ELSE LET target_add == IF current_count = 0 THEN QUEUE_TARGET ELSE QUEUE_BATCH
                 batch_id == Cardinality({q.batch_id : q \in queue}) + 1
                 selected == select_fallback(
                                 select_mix(1, <<>>, target_add, queue, status_log),
                                 target_add, queue, status_log)
             IN  insert_queue_entries(selected, batch_id, queue)

\* the cases GET /queue returns: the QUEUED rows, at most `limit` of them
queue_listing(queue) ==
    {[case_id |-> q.case_id, player_id |-> q.player_id,
      risk_category |-> q.risk_category] : q \in {r \in queue : r.status = "QUEUED"}}

\* the three statements of start_case and of submit_case
write_case_status(payload, status, queue, status_log) ==
    [status_log |->
        {st \in status_log : st.case_id # payload.case_id}
        \cup {[case_id |-> payload.case_id, player_id |-> payload.player_id,
               analyst_id |-> payload.analyst_id, status |-> status]},
     queue |->
        {IF q.case_id = payload.case_id THEN [q EXCEPT !.status = "REMOVED"] ELSE q :
            q \in queue}]

\* payloads of the start requests: the best-ranked and the worst-ranked
\* queued case
StartPayloads(queue) ==
    LET queued == {q \in queue : q.status = "QUEUED"}
        rank(q) == CHOOSE r \in RG_RISK_SCORES : r.player_id = q.player_id
    IN  {[case_id |-> q.case_id, player_id |-> q.player_id, analyst_id |-> "analyst"] :
            q \in {c \in queued :
                      \/ \A o \in queued \ {c} : RanksBefore(rank(c), rank(o))
                      \/ \A o \in queued \ {c} : RanksBefore(rank(o), rank(c))}}

\* payloads of the submit requests: the cases in progress
SubmitPayloads(status_log) ==
    {[case_id |-> st.case_id, player_id |-> st.player_id, analyst_id |-> st.analyst_id] :
        st \in {c \in status_log : c.status = STATUS_IN_PROGRESS}}

InitQueue ==
    /\ SeedIdle /\ PipeIdle /\ FsmIdle /\ GenIdle /\ CfgIdle /\ ExpIdle /\ ValIdle /\ LateIdle
    /\ pc = "serving"
    /\ rg_queue_cases = {}
    /\ rg_case_status_log = {}
    /\ response = None

\* GET /queue (limit 200, the default)
GetQueue ==
    /\ pc = "serving"
    /\ rg_queue_cases' = refill_queue_if_needed(rg_queue_cases, rg_case_status_log)
    /\ response' = [cases |-> queue_listing(rg_queue_cases')]
    /\ queued_count(rg_queue_cases') <= 200
    /\ UNCHANGED <<pc, fsmVars, genVars, seedVars, pipeVars, cfgVars, expVars, valVars, lateVars,
                   rg_case_status_log>>

\* a start_case handler that leaves the queue row as it is
StartCase_keeps_queue_row ==
    /\ pc = "serving"
    /\ Cardinality(rg_case_status_log) < MaxStarts
    /\ \E payload \in StartPayloads(rg_queue_cases) :
         LET written == write_case_status(payload, STATUS_IN_PROGRESS,
                                          rg_queue_cases, rg_case_status_log)
         IN  /\ rg_case_status_log' = written.status_log
             /\ rg_queue_cases' = rg_queue_cases
             /\ response' = [case_id |-> payload.case_id, player_id |-> payload.player_id,
                             status |-> STATUS_IN_PROGRESS]
    /\ UNCHANGED <<pc, fsmVars, genVars, seedVars, pipeVars, cfgVars, expVars, valVars, lateVars>>

\* POST /cases/start for a queued case
StartCase ==
    /\ pc = "serving"
    /\ Cardinality(rg_case_status_log) < MaxStarts
    /\ \E payload \in StartPayloads(rg_queue_cases) :
         LET written == write_case_status(payload, STATUS_IN_PROGRESS,
                                          rg_queue_cases, rg_case_status_log)
         IN  /\ rg_case_status_log' = written.status_log
             /\ rg_queue_cases' = written.queue
             /\ response' = [case_id |-> payload.case_id, player_id |-> payload.player_id,
                             status |-> STATUS_IN_PROGRESS]
    /\ UNCHANGED <<pc, fsmVars, genVars, seedVars, pipeVars, cfgVars, expVars, valVars, lateVars>>

\* POST /cases/submit for a case in progress, early in the run
SubmitCase ==
    /\ pc = "serving"
    /\ Cardinality(rg_case_status_log) <= MaxStartedAtSubmit
    /\ \E payload \in SubmitPayloads(rg_case_status_log) :
         LET written == write_case_status(payload, STATUS_SUBMITTED,
                                          rg_queue_cases, rg_case_status_log)
         IN  /\ rg_case_status_log' = written.status_log
             /\ rg_queue_cases' = written.queue
             /\ response' = [case_id |-> payload.case_id, player_id |-> payload.player_id,
                             status |-> STATUS_SUBMITTED]
    /\ UNCHANGED <<pc, fsmVars, genVars, seedVars, pipeVars, cfgVars, expVars, valVars, lateVars>>

NextQueue == GetQueue \/ StartCase \/ SubmitCase

SpecQueue == InitQueue /\ [][NextQueue]_vars

QueuedRows == {q \in rg_queue_cases : q.status = "QUEUED"}

IsQueueListing(r) == "cases" \in DOMAIN r

\* a start request was served: a case got its first status row
StartStep == Cardinality(rg_case_status_log') = Cardinality(rg_case_status_log) + 1

\* a GET /queue was served
GetStep == IsQueueListing(response') /\ rg_case_status_log' = rg_case_status_log

\* C20: once start_case has been called for a queued case, with that case's
\* case_id and player_id, the case's queue row is REMOVED and stays so, no
\* QUEUED row exists for an entity that has a case-status row (no refill
\* queues it again), and no GET /queue returns the case; the start leaves
\* every other queue row as it was, so the queue is one case shorter, and a
\* GET /queue that finds at least 20 queued cases returns exactly those.
C20_StartedCaseLeavesQueue ==
    /\ [](\A st \in rg_case_status_log :
             /\ \E q \in rg_queue_cases : q.case_id = st.case_id /\ q.status = "REMOVED"
             /\ ~\E q \in QueuedRows :
                   q.case_id = st.case_id \/ q.player_id = st.player_id)
    /\ [](IsQueueListing(response) =>
             \A c \in response.cases :
                ~\E st \in rg_case_status_log :
                    st.case_id = c.case_id \/ st.player_id = c.player_id)
    /\ [][StartStep =>
             \E started \in QueuedRows :
                /\ rg_queue_cases' =
                      (rg_queue_cases \ {started})
                          \cup {[started EXCEPT !.status = "REMOVED"]}
                /\ queued_count(rg_queue_cases') = queued_count(rg_queue_cases) - 1
                /\ \E st \in rg_case_status_log' :
                      st.case_id = started.case_id /\ st.player_id = started.player_id
         ]_vars
    /\ [][(GetStep /\ queued_count(rg_queue_cases) >= QUEUE_REFILL_AT) =>
             /\ rg_queue_cases' = rg_queue_cases
             /\ response'.cases = queue_listing(rg_queue_cases)
         ]_vars

\* 31 cases were started, the queue fell below 20 and a GET /queue refilled
\* it with a second batch; the listing holds none of the started cases
C20_Witness ==
    /\ IsQueueListing(response)
    /\ Cardinality(rg_case_status_log) >= 31
    /\ \E q \in rg_queue_cases : q.batch_id = 2 /\ q.status = "QUEUED"
    /\ \E q \in rg_queue_cases : q.batch_id = 1 /\ q.status = "REMOVED"
    /\ Cardinality(response.cases) = 49


(***************************************************************************)
(* The validation suite (validation.py) on full-size tables.               *)
(* The three tables are kept in grouped form: a group stands for n_players *)
(* rows of players_df, the assessment row of each of them in gamalyze_df   *)
(* (the same three scores) and, for each of them, the same events in       *)
(* bets_df, in timestamp order.  Amounts are in cents.  numpy's floating   *)
(* point results are modelled by exact arithmetic on integers of any size, *)
(* kept as digit sequences, least significant digit first.                 *)
(***************************************************************************)
Radix == 100 * 100

RECURSIVE Digits(_)
Digits(n) == IF n = 0 THEN <<>> ELSE <<n % Radix>> \o Digits(n \div Radix)

RECURSIVE Strip(_)
Strip(a) ==
    IF a = <<>> THEN <<>>
    ELSE IF a[Len(a)] = 0 THEN Strip(SubSeq(a, 1, Len(a) - 1)) ELSE a

RECURSIVE MagAdd(_, _, _)
MagAdd(a, b, carry) ==
    IF a = <<>> /\ b = <<>> THEN Digits(carry)
    ELSE LET s == (IF a = <<>> THEN 0 ELSE Head(a))
                  + (IF b = <<>> THEN 0 ELSE Head(b)) + carry
         IN  <<s % Radix>> \o MagAdd(IF a = <<>> THEN <<>> ELSE Tail(a),
                                     IF b = <<>> THEN <<>> ELSE Tail(b),
                                     s \div Radix)

\* a - b - borrow for a >= b
RECURSIVE MagSub(_, _, _)
MagSub(a, b, borrow) ==
    IF a = <<>> THEN <<>>
    ELSE LET d == Head(a) - (IF b = <<>> THEN 0 ELSE Head(b)) - borrow
         IN  <<IF d < 0 THEN d + Radix ELSE d>>
             \o MagSub(Tail(a), IF b = <<>> THEN <<>> ELSE Tail(b),
                       IF d < 0 THEN 1 ELSE 0)

\* -1, 0, 1 as a < b, a = b, a > b (both without leading zeros)
RECURSIVE MagCmp(_, _)
MagCmp(a, b) ==
    IF Len(a) # Len(b) THEN (IF Len(a) < Len(b) THEN -1 ELSE 1)
    ELSE IF a = <<>> THEN 0
    ELSE IF a[Len(a)] # b[Len(b)] THEN (IF a[Len(a)] < b[Len(b)] THEN -1 ELSE 1)
    ELSE MagCmp(SubSeq(a, 1, Len(a) - 1), SubSeq(b, 1, Len(b) - 1))

RECURSIVE MagScale(_, _, _)
MagScale(a, digit, carry) ==
    IF a = <<>> THEN Digits(carry)
    ELSE LET s == Head(a) * digit + carry
         IN  <<s % Radix>> \o MagScale(Tail(a), digit, s \div Radix)

RECURSIVE MagMul(_, _)
MagMul(a, b) ==
    IF a = <<>> \/ b = <<>> THEN <<>>
    ELSE MagAdd(MagScale(a, Head(b), 0), <<0>> \o MagMul(a, Tail(b)), 0)

Big(n) == [neg |-> n < 0, mag |-> Digits(IF n < 0 THEN -n ELSE n)]

BigMul(x, y) ==
    LET m == Strip(MagMul(x.mag, y.mag))
    IN  [neg |-> m # <<>> /\ x.neg # y.neg, mag |-> m]

BigNeg(x) == [neg |-> ~x.neg /\ x.mag # <<>>, mag |-> x.mag]

BigAdd(x, y) ==
    IF x.neg = y.neg THEN [neg |-> x.neg, mag |-> Strip(MagAdd(x.mag, y.mag, 0))]
    ELSE LET c == MagCmp(x.mag, y.mag)
         IN  IF c = 0 THEN Big(0)
             ELSE IF c > 0 THEN [neg |-> x.neg, mag |-> Strip(MagSub(x.mag, y.mag, 0))]
             ELSE [neg |-> y.neg, mag |-> Strip(MagSub(y.mag, x.mag, 0))]

BigSub(x, y) == BigAdd(x, BigNeg(y))

\* -1, 0, 1 as x < y, x = y, x > y
BigCmp(x, y) ==
    LET d == BigSub(x, y)
    IN  IF d.mag = <<>> THEN 0 ELSE IF d.neg THEN -1 ELSE 1

RECURSIVE BigSum(_)
BigSum(terms) ==
    IF terms = <<>> THEN Big(0) ELSE BigAdd(Head(terms), BigSum(Tail(terms)))

RECURSIVE SeqSum(_)
SeqSum(terms) == IF terms = <<>> THEN 0 ELSE Head(terms) + SeqSum(Tail(terms))

RECURSIVE Gcd(_, _)
Gcd(a, b) == IF b = 0 THEN a ELSE Gcd(b, a % b)

\* the fraction num / den (den > 0) in lowest terms
Rat(num, den) ==
    LET g == Gcd(IF num < 0 THEN -num ELSE num, den)
    IN  [num |-> num \div g, den |-> den \div g]

RECURSIVE Lcm(_)
Lcm(dens) ==
    IF dens = <<>> THEN 1
    ELSE LET rest == Lcm(Tail(dens))
         IN  (Head(dens) \div Gcd(Head(dens), rest)) * rest

\* SPORT_DISTRIBUTION_BASELINE in hundredths, in the order of its keys
SportOrder == <<"NFL", "NBA", "MLB", "NHL", "SOCCER", "MMA", "TENNIS", "TABLE_TENNIS">>

SPORT_DISTRIBUTION_BASELINE ==
    [sp \in Sports |->
       CASE sp = "NFL" -> 40 [] sp = "NBA" -> 25 [] sp = "MLB" -> 15
         [] sp = "NHL" -> 8 [] sp = "SOCCER" -> 6 [] sp = "MMA" -> 3
         [] sp = "TENNIS" -> 2 [] OTHER -> 1]

\* TARGET_CORRELATIONS and CORRELATION_TOLERANCE in hundredths
TARGET_CORRELATIONS ==
    <<[var1 |-> "sensitivity_to_loss", var2 |-> "bet_escalation_ratio", target_r |-> 72],
      [var1 |-> "risk_tolerance", var2 |-> "market_tier_drift", target_r |-> 58],
      [var1 |-> "decision_consistency", var2 |-> "temporal_risk", target_r |-> -45]>>

CORRELATION_TOLERANCE == 5

\* chisquare's p-value exceeds CHI_SQUARE_P_THRESHOLD = 0.05 exactly when the
\* statistic is below the 0.95 quantile of the chi-square distribution with
\* len(sports) - 1 = 7 degrees of freedom, 14.0671 (numerator, denominator)
CHI_SQUARE_CRITICAL == <<140671, 10000>>

\* len(players_df), len(gamalyze_df), len(bets_df)
len_players(tables) == SeqSum([g \in 1..Len(tables) |-> tables[g].n_players])
len_bets(tables) ==
    SeqSum([g \in 1..Len(tables) |-> tables[g].n_players * Len(tables[g].bets)])

\* sum of bet_amount over the events whose prev_outcome is o, up to event i
RECURSIVE amount_after(_, _, _)
amount_after(player_bets, o, i) ==
    IF i < 2 THEN 0
    ELSE (IF player_bets[i - 1].outcome = o THEN player_bets[i].bet_amount ELSE 0)
         + amount_after(player_bets, o, i - 1)

RECURSIVE tier_sum(_, _)
tier_sum(player_bets, i) ==
    IF i < 1 THEN 0
    ELSE MARKET_TIERS[player_bets[i].sport_category] + tier_sum(player_bets, i - 1)

\* number of events of the group that follow an event with outcome o
count_after(player_bets, o) ==
    Cardinality({i \in 2..Len(player_bets) : player_bets[i - 1].outcome = o})

\* calculate_bet_metrics_per_player with avg_bet_after_win itself as divisor
calculate_bet_metrics_no_floor(player_bets) ==
    LET total_bets_ == Len(player_bets)
        n_loss_bets == count_after(player_bets, "loss")
        n_win_bets == count_after(player_bets, "win")
        sum_after_loss == amount_after(player_bets, "loss", total_bets_)
        sum_after_win == amount_after(player_bets, "win", total_bets_)
        late_night_bets == Cardinality({i \in 1..total_bets_ :
                               player_bets[i].hour >= 2 /\ player_bets[i].hour < 6})
    IN  [bet_escalation_ratio |->
            IF n_loss_bets > 0 /\ n_win_bets > 0
            THEN IF sum_after_win > 0
                 THEN Rat(sum_after_loss * n_win_bets, n_loss_bets * sum_after_win)
                 ELSE [num |-> sum_after_loss * n_win_bets,
                       den |-> n_loss_bets * sum_after_win]
            ELSE Rat(1, 1),
         market_tier_drift |-> Rat(tier_sum(player_bets, total_bets_), 10 * total_bets_),
         temporal_risk |-> Rat(late_night_bets, Max(total_bets_, 1))]

\* the row of one entity in calculate_bet_metrics_per_player, as fractions
calculate_bet_metrics_per_player(player_bets) ==
    LET total_bets_ == Len(player_bets)
        n_loss_bets == Cardinality({i \in 2..total_bets_ : player_bets[i - 1].outcome = "loss"})
        n_win_bets == Cardinality({i \in 2..total_bets_ : player_bets[i - 1].outcome = "win"})
        sum_after_loss == amount_after(player_bets, "loss", total_bets_)
        sum_after_win == amount_after(player_bets, "win", total_bets_)
        late_night_bets == Cardinality({i \in 1..total_bets_ :
                               player_bets[i].hour >= 2 /\ player_bets[i].hour < 6})
    IN  [bet_escalation_ratio |->
            IF n_loss_bets > 0 /\ n_win_bets > 0
            \* avg_bet_after_loss / max(avg_bet_after_win, 0.01), 0.01 being one cent
            THEN Rat(sum_after_loss * n_win_bets,
                     n_loss_bets * Max(sum_after_win, n_win_bets))
            ELSE Rat(1, 1),
         market_tier_drift |-> Rat(tier_sum(player_bets, total_bets_), 10 * total_bets_),
         temporal_risk |-> Rat(late_night_bets, Max(total_bets_, 1))]

\* passed of validate_correlations for one pair: |r - target_r| <= tolerance,
\* r = np.corrcoef(x, y)[0, 1]; rows[i] stands for rows[i].n merged rows with
\* the values x (a whole number) and y (a fraction); hundredths throughout
correlation_passed(rows, target_r) ==
    LET idx == 1..Len(rows)
        q == Lcm([i \in idx |-> rows[i].y.den])
        ys == [i \in idx |-> BigMul(Big(rows[i].y.num), Big(q \div rows[i].y.den))]
        n == Big(SeqSum([i \in idx |-> rows[i].n]))
        sx == BigSum([i \in idx |-> Big(rows[i].n * rows[i].x)])
        sxx == BigSum([i \in idx |-> BigMul(Big(rows[i].n * rows[i].x), Big(rows[i].x))])
        sy == BigSum([i \in idx |-> BigMul(Big(rows[i].n), ys[i])])
        syy == BigSum([i \in idx |-> BigMul(Big(rows[i].n), BigMul(ys[i], ys[i]))])
        sxy == BigSum([i \in idx |-> BigMul(Big(rows[i].n * rows[i].x), ys[i])])
        c == BigSub(BigMul(n, sxy), BigMul(sx, sy))
        ab == BigMul(BigSub(BigMul(n, sxx), BigMul(sx, sx)),
                     BigSub(BigMul(n, syy), BigMul(sy, sy)))
        c2 == BigMul(Big(100 * 100), BigMul(c, c))
        \* how (100 r)^2 compares with k^2
        cmp(k) == BigCmp(c2, BigMul(Big(k * k), ab))
        r_geq(k) == IF k >= 0 THEN ~c.neg /\ cmp(k) >= 0 ELSE ~c.neg \/ cmp(k) <= 0
        r_leq(k) == IF k >= 0 THEN c.neg \/ cmp(k) <= 0 ELSE c.neg /\ cmp(k) >= 0
    IN  \* a constant column gives r = nan, and nan <= tolerance is False
        /\ ab.mag # <<>>
        /\ r_geq(target_r - CORRELATION_TOLERANCE)
        /\ r_leq(target_r + CORRELATION_TOLERANCE)

\* validate_correlations: the merged table, then one result per pair
validate_correlations(tables) ==
    LET bet_metrics == [g \in 1..Len(tables) |-> calculate_bet_metrics_per_player(tables[g].bets)]
        merged(t) == [g \in 1..Len(tables) |->
                        [n |-> tables[g].n_players, x |-> tables[g][t.var1],
                         y |-> bet_metrics[g][t.var2]]]
    IN  [i \in 1..Len(TARGET_CORRELATIONS) |->
            correlation_passed(merged(TARGET_CORRELATIONS[i]), TARGET_CORRELATIONS[i].target_r)]

\* passed of validate_sport_distribution: chi-square of the observed counts
\* against prob * len(bets_df)
validate_sport_distribution(tables) ==
    LET n_bets == len_bets(tables)
        observed(sp) ==
            SeqSum([g \in 1..Len(tables) |->
                      tables[g].n_players
                      * Cardinality({i \in 1..Len(tables[g].bets) :
                                        tables[g].bets[i].sport_category = sp})])
        weights == Lcm([i \in 1..Len(SportOrder) |-> SPORT_DISTRIBUTION_BASELINE[SportOrder[i]]])
        deviation(sp) == Big(100 * observed(sp) - SPORT_DISTRIBUTION_BASELINE[sp] * n_bets)
        \* chi2 * (100 * weights * n_bets * denominator of the critical value)
        statistic ==
            BigSum([i \in 1..Len(SportOrder) |->
                      BigMul(BigMul(deviation(SportOrder[i]), deviation(SportOrder[i])),
                             Big((weights \div SPORT_DISTRIBUTION_BASELINE[SportOrder[i]])
                                 * CHI_SQUARE_CRITICAL[2]))])
        critical == BigMul(BigMul(Big(CHI_SQUARE_CRITICAL[1]), Big(100 * weights)), Big(n_bets))
    IN  BigCmp(statistic, critical) < 0

\* validate_all; ks_passed is the outcome of validate_gamalyze_normality, which
\* compares every score column with a sample freshly drawn by np.random.normal
validate_all(tables, ks_passed) ==
    LET corr_results == validate_correlations(tables)
    IN  count_validations(len_players(tables), len_bets(tables), len_players(tables))
        @@ [no_null_player_ids |-> TRUE,
            valid_states |-> \A g \in 1..Len(tables) : tables[g].state \in {"MA", "NJ", "PA"},
            positive_bets |-> \A g \in 1..Len(tables) : \A i \in 1..Len(tables[g].bets) :
                                  tables[g].bets[i].bet_amount > 0,
            sport_distribution |-> validate_sport_distribution(tables),
            gamalyze_normality |-> ks_passed,
            corr_sensitivity_to_loss_vs_bet_escalation_ratio |-> corr_results[1],
            corr_risk_tolerance_vs_market_tier_drift |-> corr_results[2],
            corr_decision_consistency_vs_temporal_risk |-> corr_results[3]]

\* the events of one entity: 50 events, a loss then a win in turn; the
\* amount after a loss is 30.00 for an entity that escalates and 20.00
\* otherwise; the first ten events at 3 a.m. for a late-night entity
MajorSports == <<<<"NFL", 25>>, <<"NBA", 15>>, <<"MLB", 10>>>>
MixedSports ==
    <<<<"NFL", 15>>, <<"NBA", 10>>, <<"MLB", 5>>, <<"NHL", 8>>, <<"SOCCER", 6>>,
      <<"MMA", 3>>, <<"TENNIS", 2>>, <<"TABLE_TENNIS", 1>>>>

RECURSIVE sport_at(_, _)
sport_at(runs, i) ==
    IF i <= Head(runs)[2] THEN Head(runs)[1] ELSE sport_at(Tail(runs), i - Head(runs)[2])

ValidationBets(escalates, majors, late) ==
    [i \in 1..50 |->
        [outcome |-> IF i % 2 = 1 THEN "loss" ELSE "win",
         bet_amount |-> IF escalates /\ i % 2 = 0 THEN 3000 ELSE 2000,
         sport_category |-> sport_at(IF majors THEN MajorSports ELSE MixedSports, i),
         hour |-> IF late /\ i <= 10 THEN 3 ELSE 20]]

ValidationGroup(n, st, risky, escalates, majors, late) ==
    [n_players |-> n, state |-> st,
     sensitivity_to_loss |-> IF risky THEN 65 ELSE 35,
     risk_tolerance |-> IF risky THEN 65 ELSE 35,
     decision_consistency |-> IF risky THEN 35 ELSE 65,
     bets |-> ValidationBets(escalates, majors, late)]

\* 10,000 entities with 50 events each; the group sizes give the three
\* target correlations and the baseline sport shares
ValidationDatasets ==
    {<<ValidationGroup(3625, "NJ", TRUE, TRUE, TRUE, TRUE),
       ValidationGroup(325, "PA", TRUE, TRUE, TRUE, FALSE),
       ValidationGroup(350, "MA", TRUE, TRUE, FALSE, FALSE),
       ValidationGroup(700, "NJ", TRUE, FALSE, FALSE, FALSE),
       ValidationGroup(700, "PA", FALSE, TRUE, TRUE, TRUE),
       ValidationGroup(350, "MA", FALSE, FALSE, TRUE, TRUE),
       ValidationGroup(325, "NJ", FALSE, FALSE, FALSE, TRUE),
       ValidationGroup(3625, "PA", FALSE, FALSE, FALSE, FALSE)>>}

\* which event of the entity is changed, and to which amount (cents)
CorruptPositions == {1, 2, 3, 50}
NegativeAmounts == {-1, -50000}

\* one event of one entity of group g gets the amount v
corrupt_amount(tables, g, i, v) ==
    LET one == [tables[g] EXCEPT !.n_players = 1, !.bets[i].bet_amount = v]
        others == [tables[g] EXCEPT !.n_players = @ - 1]
    IN  SubSeq(tables, 1, g - 1)
        \o (IF tables[g].n_players > 1 THEN <<others>> ELSE <<>>)
        \o <<one>> \o SubSeq(tables, g + 1, Len(tables))

InitValidate ==
    /\ pc = "validate_baseline"
    /\ datasets \in ValidationDatasets
    /\ baseline_results = None /\ corrupted_results = None
    /\ SeedIdle /\ PipeIdle /\ FsmIdle /\ GenIdle /\ CfgIdle /\ ExpIdle /\ QueueIdle
    /\ LateIdle

\* validate_all on the tables as generated
ValidateBaseline ==
    /\ pc = "validate_baseline"
    /\ \E ks_passed \in BOOLEAN : baseline_results' = validate_all(datasets, ks_passed)
    /\ pc' = "corrupt_amount"
    /\ UNCHANGED <<fsmVars, genVars, seedVars, pipeVars, cfgVars, expVars, queueVars,
                   lateVars,
                   datasets, corrupted_results>>

\* one event's amount is set to a negative value
CorruptAmount ==
    /\ pc = "corrupt_amount"
    /\ \E g \in 1..Len(datasets), i \in CorruptPositions, v \in NegativeAmounts :
          datasets' = corrupt_amount(datasets, g, i, v)
    /\ pc' = "validate_corrupted"
    /\ UNCHANGED <<fsmVars, genVars, seedVars, pipeVars, cfgVars, expVars, queueVars,
                   lateVars,
                   baseline_results, corrupted_results>>

\* validate_all on the changed tables
ValidateCorrupted ==
    /\ pc = "validate_corrupted"
    /\ \E ks_passed \in BOOLEAN : corrupted_results' = validate_all(datasets, ks_passed)
    /\ pc' = "validated"
    /\ UNCHANGED <<fsmVars, genVars, seedVars, pipeVars, cfgVars, expVars, queueVars,
                   lateVars,
                   datasets, baseline_results>>

NextValidate == ValidateBaseline \/ CorruptAmount \/ ValidateCorrupted

SpecValidate == InitValidate /\ [][NextValidate]_vars

\* C15: when every check passed on the tables as generated, then after one
\* event's amount was changed to a negative value the check 'positive_bets'
\* fails and every other check of the returned map has the result it had
\* before.
C15_OnlyPositivityFails ==
    (pc = "validated" /\ all_passed(baseline_results)) =>
        /\ ~corrupted_results["positive_bets"]
        /\ \A k \in DOMAIN baseline_results \ {"positive_bets"} :
               corrupted_results[k] = baseline_results[k]



(***************************************************************************)
(* Further claims about the state machine                                  *)
(***************************************************************************)
\* the state machine of the running generate_bets_for_single_player exists
MachineCreated == pc \in {"loop", "emitted"}

\* C22: in every state of an entity's state machine, from its construction
\* on, the current late-hour fraction handed to generate_bet_timestamp lies
\* in [0, 0.70], for the late_night_pct range of every cohort.
C22_LateHourFractionCapped ==
    MachineCreated =>
        /\ state_machine.current_late_night_pct >= 0
        /\ state_machine.current_late_night_pct <= LATE_NIGHT_CAP

\* C26: state and counter are coupled in every reachable state: NORMAL exactly
\* when consecutive_losses = 0, CHASING exactly when it is 1, ESCALATING
\* exactly when it is at least 2; the state is always one of the three (the
\* fall-through branch of get_next_bet_amount is never taken) and no step
\* leads from NORMAL to ESCALATING.
C26_StateCounterCoupled ==
    /\ [](/\ state_machine.state \in {"NORMAL", "CHASING", "ESCALATING"}
          /\ (state_machine.state = "NORMAL") <=> (state_machine.consecutive_losses = 0)
          /\ (state_machine.state = "CHASING") <=> (state_machine.consecutive_losses = 1)
          /\ (state_machine.state = "ESCALATING") <=> (state_machine.consecutive_losses >= 2))
    /\ [][state_machine.state = "NORMAL" => state_machine'.state # "ESCALATING"]_vars

\* an amount was handed out in ESCALATING after three losses in a row
C26_Witness ==
    /\ pc = "fsm_amount"
    /\ state_machine.state = "ESCALATING"
    /\ state_machine.consecutive_losses = 3
    /\ amount.d = 1000

\* C27: once an outcome has been processed, a machine that is NORMAL or
\* CHASING has its current late-hour fraction equal to the baseline.
C27_ElevatedOnlyWhileEscalating ==
    (MachineCreated /\ outcome # "none" /\ pc = "emitted"
       /\ state_machine.state \in {"NORMAL", "CHASING"}) =>
        state_machine.current_late_night_pct = state_machine.late_night_baseline

\* C28: every amount returned by get_next_bet_amount is at most
\* base_amount * MAX_BET_ESCALATION_MULTIPLIER, in each of the three states.
C28_AmountBoundedByMultiplier ==
    (pc = "fsm_amount") =>
        amount.n <= state_machine.base_amount * MAX_BET_ESCALATION_MULTIPLIER * amount.d



(***************************************************************************)
(* generate_bets_for_single_player with its full event count: one          *)
(* low_risk entity whose sample_from_range calls return the lower ends, so *)
(* that its count is int(2 * 90 / 7) = 25 events.  A loss is drawn only    *)
(* while the entity is not chasing, and the amount draw is the lowest one. *)
(***************************************************************************)
\* the loop head with the window test dropped
loop_continues_ignores_window(num, total, cur, end_date) == num < total

\* for bet_num in range(total_bets): if current_date >= end: break
loop_continues(num, total, cur, end_date) == num < total /\ ~(cur >= end_date)

InitLoop ==
    /\ ExtIdle
    /\ SeedIdle
    /\ FsmIdle
    /\ BetLoopIdle
    /\ pc = "next_player"
    /\ \E demographics \in [1..1 -> InitGenDemographics],
          factors \in [1..1 -> InitGenFactors] :
          players_df = generate_players(1, [i \in 1..1 |-> "low_risk"],
                                        [i \in 1..1 |-> "MA"], [i \in 1..1 |-> 10],
                                        demographics, factors)

LowerEnds == {q \in SampleDraws : \A i \in 1..4 : q[i] = 1}
LowestDraw(draws) == CHOOSE x \in draws : \A y \in draws : x <= y

\* generate_bets_for_single_player, up to the loop head
StartPlayerFullCount ==
    /\ UNCHANGED extVars
    /\ UNCHANGED seedVars
    /\ pc = "next_player"
    /\ player_pos <= Len(players_df)
    /\ LET player   == players_df[player_pos]
           behavior == BEHAVIOR_RANGES[player.risk_cohort]
       IN  \E q \in LowerEnds :
              LET bets_per_week   == sample_from_range(behavior.bets_per_week, q[1])
                  base_bet_amount == sample_from_range(behavior.base_bet_amount, q[2])
              IN  /\ total_bets' = (bets_per_week * DAYS_IN_WINDOW) \div DAYS_PER_WEEK
                  /\ state_machine' = BettingStateMachine(
                         base_bet_amount, player.target_bet_escalation,
                         sample_from_range(behavior.bet_after_loss_ratio, q[3]),
                         sample_from_range(behavior.late_night_pct, q[4]))
    /\ bets' = <<>>
    /\ bet_num' = 0
    /\ current_date' = StartDate
    /\ pc' = "loop"
    /\ UNCHANGED <<amount, outcome, chase_draw, players_df, player_pos, bet_counter,
                   all_bets, timestamp, hour, bet>>

\* one loop iteration, from the timestamp to bets.append(bet)
GenerateBetFullCount ==
    /\ UNCHANGED extVars
    /\ UNCHANGED seedVars
    /\ pc = "loop"
    /\ loop_continues(bet_num, total_bets, current_date, EndDate)
    /\ LET player == players_df[player_pos]
           cohort == player.risk_cohort
       IN  \E inc \in DayIncrements(is_chasing(state_machine)),
              r_late \in RandomDraws, ms \in MinuteSecondDraws,
              u \in {LowestDraw(UniformDraws(state_machine))},
              r_win \in RandomDraws, r_chase \in RandomDraws :
           \E h \in HourDraws(r_late, state_machine.current_late_night_pct),
              sport \in SportDraws(cohort, bet_num, Max(total_bets, 1)) :
           \E odds \in OddsDraws(sport) :
              LET ts  == generate_bet_timestamp(current_date, EndDate, inc, h, ms)
                  amt == get_next_bet_amount(state_machine, u)
                  oc  == IF r_win < COHORT_WIN_RATES[cohort] THEN "win" ELSE "loss"
                  b   == [bet_id         |-> generate_bet_id(bet_counter + bet_num),
                          player_id      |-> player.player_id,
                          bet_timestamp  |-> format_timestamp(ts),
                          sport_category |-> sport,
                          market_type    |-> "moneyline",
                          bet_amount     |-> round_to_cents(MaxOneCent(amt)),
                          odds_american  |-> odds,
                          outcome        |-> oc,
                          market_tier    |-> MARKET_TIERS[sport]]
              IN  /\ oc = "loss" => ~is_chasing(state_machine)
                  /\ timestamp' = ts
                  /\ hour' = h
                  /\ amount' = amt
                  /\ outcome' = oc
                  /\ chase_draw' = IF oc = "loss" THEN r_chase ELSE chase_draw
                  /\ state_machine' = process_outcome(state_machine, oc, r_chase)
                  /\ bet' = b
                  /\ bets' = Append(bets, [bet_id |-> b.bet_id, player_id |-> b.player_id])
    /\ pc' = "emitted"
    /\ UNCHANGED <<players_df, player_pos, bet_counter, all_bets, total_bets, bet_num,
                   current_date>>

\* the loop ends (count reached or window exhausted): return bets
FinishPlayerFullCount ==
    /\ UNCHANGED extVars
    /\ UNCHANGED seedVars
    /\ pc = "loop"
    /\ ~loop_continues(bet_num, total_bets, current_date, EndDate)
    /\ all_bets' = all_bets \o bets
    /\ bet_counter' = next_bet_counter(bet_counter, bets, total_bets)
    /\ player_pos' = player_pos + 1
    /\ pc' = "next_player"
    /\ state_machine' = None /\ amount' = None /\ outcome' = "none" /\ chase_draw' = 0
    /\ bets' = <<>> /\ total_bets' = 0 /\ bet_num' = 0
    /\ current_date' = StartDate /\ timestamp' = StartDate /\ hour' = 0 /\ bet' = None
    /\ UNCHANGED players_df

NextLoop ==
    StartPlayerFullCount \/ GenerateBetFullCount \/ AdvanceDate \/ FinishPlayerFullCount
    \/ FinishAllPlayers

SpecLoop == InitLoop /\ [][NextLoop]_vars

\* the interpreter runs the loop on
SpecLoopLive == SpecLoop /\ WF_vars(NextLoop)

\* C23: generation for one entity ends; it emits at most the sampled target
\* count int(bets_per_week * 90 / 7) of events and at least one; and once an
\* event carries the window end as its timestamp, no further event of the
\* entity is emitted.
C23_LoopTerminatesWithinBounds ==
    /\ <>(pc = "done")
    /\ [](pc \in {"loop", "emitted"} =>
             /\ Len(bets) <= total_bets
             /\ total_bets = (BEHAVIOR_RANGES["low_risk"].bets_per_week[1] * DAYS_IN_WINDOW)
                               \div DAYS_PER_WEEK)
    /\ [][(pc = "loop" /\ pc' = "next_player") => Len(bets) >= 1]_vars
    /\ [][(pc = "loop" /\ bet # None /\ bet.bet_timestamp = format_timestamp(EndDate))
             => pc' # "emitted"]_vars

\* the loop has run its full count of 25 events without reaching window end
C23_Witness ==
    /\ pc = "loop" /\ total_bets = 25
    /\ bet_num = total_bets /\ Len(bets) = 25
    /\ current_date < EndDate

(***************************************************************************)
(* Identifier generation and validation (utils.py).                        *)
(* An identifier is kept as its parts: the prefix, the number, the number  *)
(* of digit characters the format specification produces, and the state.   *)
(***************************************************************************)
\* the documented range of the index argument of generate_player_id
MaxPlayerIndex == 9999
\* the largest bet index whose number has 8 digits
MaxBetIndex == 99999998

\* re.match(r'^PLR_\d{4}_(MA|NJ|PA)$', player_id)
validate_player_id(player_id) ==
    /\ player_id.prefix = "PLR"
    /\ player_id.width = 4
    /\ player_id.state \in {"MA", "NJ", "PA"}

\* re.match(r'^BET_\d{8}$', bet_id)
validate_bet_id(bet_id) ==
    /\ bet_id.prefix = "BET"
    /\ bet_id.width = 8

\* indexes at both ends of the ranges and at every change of digit count
PlayerIndexes == {0, 1, 8, 9, 42, 98, 99, 998, 999, MaxPlayerIndex - 1, MaxPlayerIndex}
BetIndexes == {0, 9, 999999, 9999998, 9999999, MaxBetIndex - 1, MaxBetIndex}

InitIds ==
    /\ pc = "generate_ids"
    /\ id_args \in [index : PlayerIndexes, state : {"MA", "NJ", "PA"},
                    bet_index : BetIndexes]
    /\ id_checks = None
    /\ drift_args = None /\ drift_dist = None /\ drift_sport = None
    /\ group_bets = None /\ player_stats = None
    /\ utc_now = 0 /\ calls = 0 /\ STG_PLAYER_PROFILES = None
    /\ rg_trigger_check_log = <<>> /\ rg_query_log = <<>>
    /\ SeedIdle /\ PipeIdle /\ FsmIdle /\ GenIdle /\ CfgIdle /\ ExpIdle /\ QueueIdle
    /\ ValIdle

\* both identifiers are generated and handed to their validators
ValidateGeneratedIds ==
    /\ pc = "generate_ids"
    /\ LET player_id == generate_player_id(id_args.index, id_args.state)
           bet_id == generate_bet_id(id_args.bet_index)
       IN  id_checks' = [player_id |-> player_id,
                         bet_id |-> bet_id,
                         player_id_valid |-> validate_player_id(player_id),
                         bet_id_valid |-> validate_bet_id(bet_id)]
    /\ pc' = "ids_checked"
    /\ UNCHANGED <<fsmVars, genVars, seedVars, pipeVars, cfgVars, expVars, queueVars,
                   valVars, drift_args, drift_dist, drift_sport, group_bets,
                   player_stats, id_args, utc_now, calls, STG_PLAYER_PROFILES,
                   rg_trigger_check_log, rg_query_log>>

NextIds == ValidateGeneratedIds

SpecIds == InitIds /\ [][NextIds]_vars

\* C30: for every player index in 0..9999 and every state of MA, NJ, PA the
\* generated player identifier passes validate_player_id, and for every bet
\* index in 0..99,999,998 the generated bet identifier passes validate_bet_id.
C30_IdentifiersRoundTrip ==
    pc = "ids_checked" => id_checks.player_id_valid /\ id_checks.bet_id_valid

(***************************************************************************)
(* calculate_bet_metrics_per_player on one group (validation.py).          *)
(* Amounts are cents, so the floor 0.01 of the after-win mean is 1.        *)
(***************************************************************************)
\* longest group drawn
MaxGroupBets == 3

\* amounts of the drawn events: negative, zero, one cent, twenty dollars
GroupAmounts == {-500, 0, 1, 2000}

\* the groups drawn: every sequence of one to MaxGroupBets events
GroupBets ==
    UNION {[1..n -> [outcome : {"win", "loss"}, bet_amount : GroupAmounts,
                     sport_category : {"NFL"}, hour : {20}]] : n \in 1..MaxGroupBets}

\* the divisors of the divisions the function carries out for one group; a
\* mean divides by the number of its rows, the after-win mean is floored
\* (here times the number of its rows)
metric_divisors(player_bets) ==
    LET total_bets_ == Len(player_bets)
        n_loss_bets == count_after(player_bets, "loss")
        n_win_bets == count_after(player_bets, "win")
    IN  {Max(total_bets_ - 1, 1), total_bets_, Max(total_bets_, 1)}
        \cup (IF n_loss_bets > 0 /\ n_win_bets > 0
              THEN {n_loss_bets, n_win_bets,
                    Max(amount_after(player_bets, "win", total_bets_), n_win_bets)}
              ELSE {})

InitMetrics ==
    /\ pc = "group"
    /\ group_bets \in GroupBets
    /\ player_stats = None
    /\ drift_args = None /\ drift_dist = None /\ drift_sport = None
    /\ id_args = None /\ id_checks = None
    /\ utc_now = 0 /\ calls = 0 /\ STG_PLAYER_PROFILES = None
    /\ rg_trigger_check_log = <<>> /\ rg_query_log = <<>>
    /\ SeedIdle /\ PipeIdle /\ FsmIdle /\ GenIdle /\ CfgIdle /\ ExpIdle /\ QueueIdle
    /\ ValIdle

\* the body of the loop over the groups, for one group
AppendPlayerStats ==
    /\ pc = "group"
    /\ player_stats' = [metrics |-> calculate_bet_metrics_per_player(group_bets),
                        divisors |-> metric_divisors(group_bets)]
    /\ pc' = "appended"
    /\ UNCHANGED <<fsmVars, genVars, seedVars, pipeVars, cfgVars, expVars, queueVars,
                   valVars, drift_args, drift_dist, drift_sport, group_bets,
                   id_args, id_checks, utc_now, calls, STG_PLAYER_PROFILES,
                   rg_trigger_check_log, rg_query_log>>

NextMetrics == AppendPlayerStats

SpecMetrics == InitMetrics /\ [][NextMetrics]_vars

\* C25: calculate_bet_metrics_per_player divides by no zero; for a group with
\* no event after a loss or no event after a win (a single event included)
\* the escalation ratio is exactly 1; and an after-win mean of 0 or less is
\* replaced by 0.01 (one cent) as divisor, so the ratio is the after-loss mean
\* in cents.
C25_MetricsGuardDivisions ==
    pc = "appended" =>
        LET n_loss_bets == count_after(group_bets, "loss")
            n_win_bets == count_after(group_bets, "win")
            sum_after_loss == amount_after(group_bets, "loss", Len(group_bets))
            sum_after_win == amount_after(group_bets, "win", Len(group_bets))
            ratio == player_stats.metrics.bet_escalation_ratio
        IN  /\ \A d \in player_stats.divisors : d # 0
            /\ ratio.den > 0
            /\ player_stats.metrics.temporal_risk.den > 0
            /\ player_stats.metrics.market_tier_drift.den > 0
            /\ (n_loss_bets = 0 \/ n_win_bets = 0) => ratio = [num |-> 1, den |-> 1]
            /\ (n_loss_bets > 0 /\ n_win_bets > 0 /\ sum_after_win <= 0) =>
                  ratio.num * n_loss_bets = sum_after_loss * ratio.den

\* a loss, then twenty dollars won, then an amount of zero: the after-win mean
\* is 0 and the ratio is 2000 cents over one cent
C25_Witness ==
    /\ pc = "appended"
    /\ Len(group_bets) = 3
    /\ group_bets[1].outcome = "loss" /\ group_bets[2].outcome = "win"
    /\ group_bets[3].bet_amount = 0
    /\ player_stats.metrics.bet_escalation_ratio = [num |-> 2000, den |-> 1]

(***************************************************************************)
(* select_sport_with_drift (bet_generator.py).                             *)
(* progress_pct is in permille, drift_factor in 1/10^4 (rounded down),     *)
(* niche_boost in 1/10^6, probabilities before the division in 1/10^8 and  *)
(* after it exact fractions [n, d].                                        *)
(***************************************************************************)
\* the largest r in lo..hi with r * r <= n
RECURSIVE SqrtSearch(_, _, _)
SqrtSearch(n, lo, hi) ==
    IF lo = hi THEN lo
    ELSE LET mid == (lo + hi + 1) \div 2
         IN  IF mid * mid <= n THEN SqrtSearch(n, mid, hi) ELSE SqrtSearch(n, lo, mid - 1)

\* p^11 for a progress value p in permille
eleventh_power(p) ==
    LET p2 == Big(p * p)
        p3 == Big(p * p * p)
        p6 == BigMul(p3, p3)
    IN  BigMul(BigMul(p6, p3), p2)

\* r^5 * 10^13 for r up to 10^4 (10^13 is 10 * Radix^3)
scaled_fifth_power(r) ==
    LET r2 == Big(r * r)
        r5 == BigMul(BigMul(r2, r2), Big(10 * r))
    IN  [neg |-> FALSE, mag |-> IF r5.mag = <<>> THEN <<>> ELSE <<0, 0, 0>> \o r5.mag]

\* the largest r in lo..hi with r^5 * 10^13 <= target, which for the target
\* p^11 is the whole part of 10^4 * (p / 1000) ** 2.2
RECURSIVE FifthRootSearch(_, _, _)
FifthRootSearch(target, lo, hi) ==
    IF lo = hi THEN lo
    ELSE LET mid == (lo + hi + 1) \div 2
         IN  IF BigCmp(scaled_fifth_power(mid), target) <= 0
             THEN FifthRootSearch(target, mid, hi)
             ELSE FifthRootSearch(target, lo, mid - 1)

\* drift_factor: progress_pct ** 1.5, ** 2 and ** 2.2
drift_factor(cohort, progress_pct) ==
    CASE cohort = "medium_risk" ->
             SqrtSearch((progress_pct * progress_pct * progress_pct) \div 10, 0, 10000)
      [] cohort = "high_risk" -> (progress_pct * progress_pct) \div 100
      [] cohort = "critical" -> FifthRootSearch(eleventh_power(progress_pct), 0, 10000)
      [] OTHER -> 0

\* niche_boost: drift_factor * 0.12, * 0.35, * 0.50, and 0.0 for low_risk
niche_boost(cohort, progress_pct) ==
    CASE cohort = "medium_risk" -> drift_factor(cohort, progress_pct) * 12
      [] cohort = "high_risk" -> drift_factor(cohort, progress_pct) * 35
      [] cohort = "critical" -> drift_factor(cohort, progress_pct) * 50
      [] OTHER -> 0

\* niche_boost > 0: a power of progress_pct is positive exactly when
\* progress_pct is
niche_boost_positive(cohort, progress_pct) ==
    cohort \in {"medium_risk", "high_risk", "critical"} /\ progress_pct > 0

\* SPORT_DISTRIBUTION_BASELINE.copy() as fractions
baseline_dist == [sp \in Sports |-> [n |-> SPORT_DISTRIBUTION_BASELINE[sp], d |-> 100]]

\* the percentage points (of niche_boost) added to each category
NICHE_SHIFT ==
    [sp \in Sports |->
       CASE sp = "TABLE_TENNIS" -> 50 [] sp = "MMA" -> 25 [] sp = "TENNIS" -> 25
         [] sp = "NFL" -> -40 [] sp = "NBA" -> -30 [] sp = "MLB" -> -30
         [] OTHER -> 0]

RECURSIVE sum_dist(_, _)
sum_dist(values, keys) ==
    IF keys = {} THEN 0
    ELSE LET k == CHOOSE x \in keys : TRUE
         IN  values[k] + sum_dist(values, keys \ {k})

\* a shift that takes 0.60 * niche_boost from NFL, with neither the clip nor
\* the division by the total
shifted_dist_unbalanced(cohort, progress_pct) ==
    IF niche_boost_positive(cohort, progress_pct)
    THEN [sp \in Sports |->
            [n |-> SPORT_DISTRIBUTION_BASELINE[sp] * 1000000
                     + niche_boost(cohort, progress_pct)
                         * (IF sp = "NFL" THEN -60 ELSE NICHE_SHIFT[sp]),
             d |-> 100000000]]
    ELSE baseline_dist

\* dist at the sampling line: shifted, clipped at 0 and divided by its total
\* when niche_boost > 0, the baseline otherwise
shifted_dist(cohort, progress_pct) ==
    IF niche_boost_positive(cohort, progress_pct)
    THEN LET shifted == [sp \in Sports |->
                            SPORT_DISTRIBUTION_BASELINE[sp] * 1000000
                              + niche_boost(cohort, progress_pct) * NICHE_SHIFT[sp]]
             clipped == [sp \in Sports |-> Max(0, shifted[sp])]
             total == sum_dist(clipped, Sports)
         IN  [sp \in Sports |-> [n |-> clipped[sp], d |-> total]]
    ELSE baseline_dist

\* exploration_prob in permille; 0 where the exploration branch is not entered
exploration_prob(cohort, progress_pct) ==
    IF cohort \in {"high_risk", "critical"} /\ progress_pct > 700
    THEN (IF cohort = "high_risk" THEN 200 ELSE 350)
    ELSE 0

\* progress fractions drawn: both ends, the exploration threshold, and values
\* between
ProgressGrid == {0, 10, 250, 500, 700, 701, 900, 999, 1000}

\* values of np.random.random() drawn, in permille: around both exploration
\* probabilities
ExplorationDraws == {0, 199, 200, 349, 350, 999}

InitSport ==
    /\ pc = "select_sport"
    /\ drift_args \in [cohort : Cohorts, progress_pct : ProgressGrid,
                       random : ExplorationDraws]
    /\ drift_dist = None /\ drift_sport = None
    /\ group_bets = None /\ player_stats = None
    /\ id_args = None /\ id_checks = None
    /\ utc_now = 0 /\ calls = 0 /\ STG_PLAYER_PROFILES = None
    /\ rg_trigger_check_log = <<>> /\ rg_query_log = <<>>
    /\ SeedIdle /\ PipeIdle /\ FsmIdle /\ GenIdle /\ CfgIdle /\ ExpIdle /\ QueueIdle
    /\ ValIdle

\* select_sport_with_drift(cohort, progress_pct): the exploration branch
\* returns any key of dist, the sampling line any category of positive
\* probability
SelectSportWithDrift ==
    /\ pc = "select_sport"
    /\ LET cohort == drift_args.cohort
           progress_pct == drift_args.progress_pct
           explores == drift_args.random < exploration_prob(cohort, progress_pct)
           dist == IF explores THEN baseline_dist ELSE shifted_dist(cohort, progress_pct)
       IN  /\ drift_dist' = [explored |-> explores, dist |-> dist]
           /\ \E sp \in DOMAIN dist :
                 /\ explores \/ dist[sp].n # 0
                 /\ drift_sport' = sp
    /\ pc' = "sport_selected"
    /\ UNCHANGED <<fsmVars, genVars, seedVars, pipeVars, cfgVars, expVars, queueVars,
                   valVars, drift_args, group_bets, player_stats, id_args, id_checks,
                   utc_now, calls, STG_PLAYER_PROFILES, rg_trigger_check_log,
                   rg_query_log>>

NextSport == SelectSportWithDrift

SpecSport == InitSport /\ [][NextSport]_vars

\* C24: for every cohort and every progress fraction in [0, 1] the
\* distribution select_sport_with_drift samples from has no negative
\* probability and sums to 1, and every category the function returns, the
\* exploration branch included, is one of the 8 categories of the taxonomy and
\* has a market tier.
C24_DriftDistributionValid ==
    pc = "sport_selected" =>
        /\ ~drift_dist.explored =>
              /\ \A sp \in DOMAIN drift_dist.dist :
                    drift_dist.dist[sp].n >= 0 /\ drift_dist.dist[sp].d > 0
              /\ \A sp \in DOMAIN drift_dist.dist :
                    sum_dist([k \in DOMAIN drift_dist.dist |-> drift_dist.dist[k].n],
                             DOMAIN drift_dist.dist) = drift_dist.dist[sp].d
        /\ drift_sport \in Sports
        /\ Cardinality(Sports) = 8
        /\ drift_sport \in DOMAIN MARKET_TIERS
        /\ MARKET_TIERS[drift_sport] \in {2, 5, 7, 10}

\* a critical entity at the end of the window: the shift has emptied MLB and
\* the niche category is returned from the sampling line
C24_Witness ==
    /\ pc = "sport_selected"
    /\ drift_args.cohort = "critical" /\ drift_args.progress_pct = 1000
    /\ ~drift_dist.explored
    /\ drift_dist.dist["MLB"].n = 0
    /\ drift_dist.dist["TABLE_TENNIS"].n = 26000000
    /\ drift_sport = "TABLE_TENNIS"

(***************************************************************************)
(* POST /api/cases/trigger-check/{player_id} (routers/cases.py).           *)
(* Timestamps are instants (whole numbers); the text of the SQL statement  *)
(* a row carries is a function of its state and is left out of the rows.   *)
(***************************************************************************)
\* requests served in a run
MaxCalls == 4

\* player_id of the requests
TriggerPlayers == {"PLR_2111_MA", "PLR_2222_NJ"}

\* the contents of STG_PLAYER_PROFILES drawn: the first player in each of the
\* three jurisdictions, the second without a row or in NJ
TriggerProfiles ==
    {[p \in {"PLR_2111_MA"} |-> st] : st \in {"MA", "NJ", "PA"}}
    \cup {[p \in TriggerPlayers |-> IF p = "PLR_2111_MA" THEN st ELSE "NJ"] :
             st \in {"MA", "NJ", "PA"}}

\* _get_state_for_player
get_state_for_player(player_id, profiles) ==
    IF player_id \in DOMAIN profiles THEN profiles[player_id] ELSE "None"

\* what the state's query reads at the time of a call: (avg_bet, max_bet) in
\* dollars for MA, flag_count for NJ, self_exclusion_reversals for PA
TriggerData(st) ==
    CASE st = "MA" -> {<<76, 140>>, <<10, 140>>}
      [] st = "NJ" -> {1, 3}
      [] st = "PA" -> {0}
      [] OTHER -> {0}

\* triggered and reason of the state's branch
state_check(st, data) ==
    CASE st = "MA" ->
             [triggered |-> data[1] > 0 /\ data[2] > data[1] * 10,
              reason |-> IF data[1] > 0
                         THEN [text |-> "Max bet vs 90d avg", max_bet |-> data[2],
                               avg_bet |-> data[1]]
                         ELSE [text |-> "No 90-day betting history available."]]
      [] st = "NJ" ->
             [triggered |-> data >= 3,
              reason |-> [text |-> "high/critical flags in last 30 days",
                          flag_count |-> data]]
      [] OTHER ->
             [triggered |-> data >= 3,
              reason |-> IF data = 0
                         THEN [text |-> "Self-exclusion history not available in dataset."]
                         ELSE [text |-> "reversals detected in 6 months", reversals |-> data]]

\* the rows of rg_trigger_check_log with the player_id
player_rows(log, player_id) ==
    {k \in 1..Len(log) : log[k].player_id = player_id}

\* the sets of rows the cache query can return: of every state of the
\* player's rows one row that no row of the state is later than (rn = 1)
cached_rows(log, player_id) ==
    LET of_player == player_rows(log, player_id)
        states == {log[k].state : k \in of_player}
        first_ranked(k) == \A o \in of_player :
                               log[o].state = log[k].state =>
                                   log[o].created_at <= log[k].created_at
    IN  {picked \in SUBSET {k \in of_player : first_ranked(k)} :
            \A st \in states : Cardinality({k \in picked : log[k].state = st}) = 1}

\* TriggerCheckResult of a row
trigger_result(row) ==
    [state |-> row.state, triggered |-> row.triggered, reason |-> row.reason,
     row_count |-> row.row_count, created_at |-> row.created_at]

\* `if cached:` in place of `if cached and not force:`
returns_cached_ignores_force(cached, force) == cached # {}

\* if cached and not force
returns_cached(cached, force) == cached # {} /\ ~force

InitTrigger ==
    /\ pc = "serving"
    /\ STG_PLAYER_PROFILES \in TriggerProfiles
    /\ utc_now = 0 /\ calls = 0
    /\ rg_trigger_check_log = <<>> /\ rg_query_log = <<>>
    /\ drift_args = None /\ drift_dist = None /\ drift_sport = None
    /\ group_bets = None /\ player_stats = None
    /\ id_args = None /\ id_checks = None
    /\ SeedIdle /\ PipeIdle /\ FsmIdle /\ GenIdle /\ CfgIdle /\ ExpIdle /\ QueueIdle
    /\ ValIdle

\* trigger_check(player_id, force); time may have passed since the last
\* request when the handler reads the clock
TriggerCheck ==
    /\ pc = "serving"
    /\ calls < MaxCalls
    /\ calls' = calls + 1
    /\ \E player_id \in TriggerPlayers, force \in BOOLEAN :
          \E picked \in cached_rows(rg_trigger_check_log, player_id) :
             IF returns_cached(picked, force)
             THEN /\ response' = [endpoint |-> "trigger_check", player_id |-> player_id,
                                  force |-> force,
                                  results |-> {trigger_result(rg_trigger_check_log[k]) :
                                                  k \in picked}]
                  /\ UNCHANGED <<utc_now, rg_trigger_check_log, rg_query_log>>
             ELSE LET st == get_state_for_player(player_id, STG_PLAYER_PROFILES)
                  IN  IF st \in {"MA", "NJ", "PA"}
                      THEN \E data \in TriggerData(st), elapsed \in {0, 1} :
                              LET checked == state_check(st, data)
                                  created_at == utc_now + elapsed
                                  row == [player_id |-> player_id, state |-> st,
                                          triggered |-> checked.triggered,
                                          reason |-> checked.reason,
                                          row_count |-> 1, created_at |-> created_at]
                              IN  /\ utc_now' = created_at
                                  /\ rg_query_log' = Append(rg_query_log,
                                        [player_id |-> player_id,
                                         analyst_id |-> "Colby Reichenbach",
                                         purpose |-> <<"Regulatory Trigger Check", st>>,
                                         result_summary |-> checked,
                                         created_at |-> created_at])
                                  /\ rg_trigger_check_log' =
                                        Append(rg_trigger_check_log, row)
                                  /\ response' = [endpoint |-> "trigger_check",
                                                  player_id |-> player_id,
                                                  force |-> force,
                                                  results |-> {trigger_result(row)}]
                      ELSE /\ response' = [endpoint |-> "trigger_check",
                                           player_id |-> player_id, force |-> force,
                                           results |-> {}]
                           /\ UNCHANGED <<utc_now, rg_trigger_check_log, rg_query_log>>
    /\ UNCHANGED <<pc, fsmVars, genVars, seedVars, pipeVars, cfgVars, expVars, valVars,
                   rg_queue_cases, rg_case_status_log, drift_args, drift_dist,
                   drift_sport, group_bets, player_stats, id_args, id_checks,
                   STG_PLAYER_PROFILES>>

NextTrigger == TriggerCheck

SpecTrigger == InitTrigger /\ [][NextTrigger]_vars

\* C21: a call without force for a player that has a row in
\* rg_trigger_check_log returns, for every state of the player's rows, one
\* row that is the latest of that state, and leaves rg_trigger_check_log and
\* rg_query_log as they were; a call with force for a player in MA, NJ or PA
\* appends exactly one row to rg_trigger_check_log, for that player and
\* state, and returns that row.
C21_CacheUnlessForced ==
    [][calls' = calls + 1 =>
         LET player_id == response'.player_id
             log == rg_trigger_check_log
             of_player == {k \in 1..Len(log) : log[k].player_id = player_id}
         IN  /\ (of_player # {} /\ ~response'.force) =>
                   /\ rg_trigger_check_log' = rg_trigger_check_log
                   /\ rg_query_log' = rg_query_log
                   /\ \A res \in response'.results :
                         \E k \in of_player :
                            /\ res = trigger_result(log[k])
                            /\ \A o \in of_player :
                                  log[o].state = log[k].state =>
                                      log[o].created_at <= log[k].created_at
                   /\ \A k \in of_player :
                         Cardinality({res \in response'.results :
                                         res.state = log[k].state}) = 1
             /\ (response'.force
                   /\ get_state_for_player(player_id, STG_PLAYER_PROFILES)
                        \in {"MA", "NJ", "PA"}) =>
                   /\ Len(rg_trigger_check_log') = Len(log) + 1
                   /\ SubSeq(rg_trigger_check_log', 1, Len(log)) = log
                   /\ LET row == rg_trigger_check_log'[Len(log) + 1]
                      IN  /\ row.player_id = player_id
                          /\ row.state = get_state_for_player(player_id,
                                                              STG_PLAYER_PROFILES)
                          /\ row.created_at = utc_now'
                          /\ response'.results = {trigger_result(row)}]_vars

\* the requests of the test: a first call, a call that was served from the
\* cache, and a forced call that added the player's second row
C21_Witness ==
    /\ calls = 3
    /\ Len(rg_trigger_check_log) = 2
    /\ Len(rg_query_log) = 2
    /\ response.force /\ response.player_id = "PLR_2111_MA"
    /\ \A k \in 1..2 : rg_trigger_check_log[k].player_id = "PLR_2111_MA"
    /\ rg_trigger_check_log[1].created_at < rg_trigger_check_log[2].created_at
    /\ response.results = {trigger_result(rg_trigger_check_log[2])}

(***************************************************************************)
(* POST /api/cases/start and /api/cases/submit with their timestamps       *)
(* (routers/cases.py).  Every execute() is a statement of its own, so a    *)
(* statement sees the table as the statements before it left it.           *)
(***************************************************************************)
\* SQL NULL in a TIMESTAMP column
NullTime == 0 - 1

\* payloads of the requests
CasePayloads ==
    {[case_id |-> "CASE-9001", player_id |-> "PLR_1111_MA",
      analyst_id |-> "Colby Reichenbach"],
     [case_id |-> "CASE-9002", player_id |-> "PLR_2222_NJ",
      analyst_id |-> "Colby Reichenbach"]}

\* DELETE FROM rg_case_status_log WHERE case_id = ?
delete_case_status(status_log, case_id) ==
    {st \in status_log : st.case_id # case_id}

\* (SELECT started_at FROM rg_case_status_log WHERE case_id = ?) for a table
\* with at most one row of the case_id; NULL when it has none
select_started_at(status_log, case_id) ==
    IF \E st \in status_log : st.case_id = case_id
    THEN (CHOOSE st \in status_log : st.case_id = case_id).started_at
    ELSE NullTime

\* COALESCE(value, fallback)
coalesce(value, fallback) == IF value # NullTime THEN value ELSE fallback

\* UPDATE rg_queue_cases SET status = 'REMOVED' WHERE case_id = ?
remove_from_queue(queue, case_id) ==
    {IF q.case_id = case_id THEN [q EXCEPT !.status = "REMOVED"] ELSE q : q \in queue}

\* the statements of start_case, in order, and its response
start_case(payload, now, queue, status_log) ==
    LET deleted == delete_case_status(status_log, payload.case_id)
        entry == [case_id |-> payload.case_id, player_id |-> payload.player_id,
                  analyst_id |-> payload.analyst_id, status |-> STATUS_IN_PROGRESS,
                  started_at |-> now, submitted_at |-> NullTime, updated_at |-> now]
    IN  [status_log |-> deleted \cup {entry},
         queue |-> remove_from_queue(queue, payload.case_id),
         response |-> entry]

\* the statements of submit_case, in order, and its response
submit_case(payload, now, queue, status_log) ==
    LET deleted == delete_case_status(status_log, payload.case_id)
        entry == [case_id |-> payload.case_id, player_id |-> payload.player_id,
                  analyst_id |-> payload.analyst_id, status |-> STATUS_SUBMITTED,
                  started_at |-> coalesce(select_started_at(deleted, payload.case_id),
                                          now),
                  submitted_at |-> now, updated_at |-> now]
        inserted == deleted \cup {entry}
    IN  [status_log |-> inserted,
         queue |-> remove_from_queue(queue, payload.case_id),
         response |-> [entry EXCEPT
                          !.started_at = select_started_at(inserted, payload.case_id)]]

InitCases ==
    /\ pc = "serving"
    /\ rg_queue_cases = {[case_id |-> "CASE-9001", player_id |-> "PLR_1111_MA",
                          status |-> "QUEUED"]}
    /\ rg_case_status_log = {}
    /\ response = None
    /\ utc_now = 0 /\ calls = 0
    /\ STG_PLAYER_PROFILES = None
    /\ rg_trigger_check_log = <<>> /\ rg_query_log = <<>>
    /\ drift_args = None /\ drift_dist = None /\ drift_sport = None
    /\ group_bets = None /\ player_stats = None
    /\ id_args = None /\ id_checks = None
    /\ SeedIdle /\ PipeIdle /\ FsmIdle /\ GenIdle /\ CfgIdle /\ ExpIdle /\ ValIdle

\* POST /api/cases/start; time may have passed since the last request
StartCaseAt ==
    /\ pc = "serving"
    /\ calls < MaxCalls
    /\ calls' = calls + 1
    /\ \E payload \in CasePayloads, elapsed \in {0, 1} :
          LET written == start_case(payload, utc_now + elapsed, rg_queue_cases,
                                    rg_case_status_log)
          IN  /\ utc_now' = utc_now + elapsed
              /\ rg_case_status_log' = written.status_log
              /\ rg_queue_cases' = written.queue
              /\ response' = written.response
    /\ UNCHANGED <<pc, fsmVars, genVars, seedVars, pipeVars, cfgVars, expVars, valVars,
                   drift_args, drift_dist, drift_sport, group_bets, player_stats,
                   id_args, id_checks, STG_PLAYER_PROFILES, rg_trigger_check_log,
                   rg_query_log>>

\* POST /api/cases/submit; time may have passed since the last request
SubmitCaseAt ==
    /\ pc = "serving"
    /\ calls < MaxCalls
    /\ calls' = calls + 1
    /\ \E payload \in CasePayloads, elapsed \in {0, 1} :
          LET written == submit_case(payload, utc_now + elapsed, rg_queue_cases,
                                     rg_case_status_log)
          IN  /\ utc_now' = utc_now + elapsed
              /\ rg_case_status_log' = written.status_log
              /\ rg_queue_cases' = written.queue
              /\ response' = written.response
    /\ UNCHANGED <<pc, fsmVars, genVars, seedVars, pipeVars, cfgVars, expVars, valVars,
                   drift_args, drift_dist, drift_sport, group_bets, player_stats,
                   id_args, id_checks, STG_PLAYER_PROFILES, rg_trigger_check_log,
                   rg_query_log>>

NextCases == StartCaseAt \/ SubmitCaseAt

SpecCases == InitCases /\ [][NextCases]_vars

\* C29: when a case that start_case has marked as in progress is submitted,
\* the started_at that submit_case stores in rg_case_status_log and returns
\* is the started_at start_case recorded, and exactly one row of
\* rg_case_status_log has that case_id afterwards.
C29_SubmitKeepsStartTime ==
    [][(calls' = calls + 1 /\ response'.status = STATUS_SUBMITTED) =>
         \A started \in rg_case_status_log :
            (started.case_id = response'.case_id
                /\ started.status = STATUS_IN_PROGRESS) =>
               /\ response'.started_at = started.started_at
               /\ \A st \in rg_case_status_log' :
                     st.case_id = started.case_id =>
                         st.started_at = started.started_at
               /\ Cardinality({st \in rg_case_status_log' :
                                  st.case_id = started.case_id}) = 1]_vars

\* afterwards exactly one row has the case_id of the request, whatever
\* started_at it carries
C29_OneRowPerCase ==
    [][calls' = calls + 1 =>
         Cardinality({st \in rg_case_status_log' :
                         st.case_id = response'.case_id}) = 1]_vars

====
